---- MODULE Spec2Model ----
(***************************************************************************)
(* Model of tools/autorp/tester.py: the TestOrchestrator (run, run_suite,  *)
(* _run_on_clients), the SampServerController (start, wait_until_ready,    *)
(* stop, running) and the log monitors (mark, wait_for,                    *)
(* collect_since_mark); of tools/autorp/bots.py: ScriptRunner.run and     *)
(* ActionTranslator.translate; of tools/autorp/scenario.py: the            *)
(* ScenarioCompiler; and of tools/autorp/slug.py: slugify_description.     *)
(*                                                                         *)
(* Spec     : run_suite over suites of up to MaxRuns contexts.             *)
(* SpecRun  : run_suite over one context of any shape, that is run().      *)
(* SpecMon  : one log monitor over a file that only grows.                 *)
(* SpecRes  : the success verdict of a TestRunResult as a pure function.   *)
(* SpecLog  : the client-log expectations of one run() on one monitor.     *)
(* SpecPlay : ScriptRunner.run over scripts of up to MaxActions actions.   *)
(* SpecSrv  : the controller under any order of start, wait_until_ready    *)
(*            and stop.                                                    *)
(* SpecScn  : ScenarioCompiler.compile over up to MaxSteps steps;          *)
(*            SpecScnLive adds weak fairness of the compiler's steps.      *)
(* SpecJson : BotScript.to_json followed by BotScript.from_json.           *)
(* SpecSum  : summarise_per_script over streams of up to MaxResults        *)
(*            results.                                                     *)
(* SpecReg  : up to MaxRegistrations register_script calls on one          *)
(*            scripts_dir.                                                 *)
(* SpecWait : run_suite over contexts with wait_before and wait_after.     *)
(* SpecWine : WineSampClient.execute_script with setup and teardown        *)
(*            actions.                                                     *)
(*                                                                         *)
(* One thread runs everything; time.sleep changes no state, and only the   *)
(* sleeps of run_suite are recorded (in slept).  The outcome of a client   *)
(* call, of the server start, of a readiness                               *)
(* poll and of a log expectation is chosen by the environment.  Contexts   *)
(* record no playback and export no client log; a server-log export may    *)
(* fail to be written.                                                     *)
(***************************************************************************)
EXTENDS Integers, Sequences, FiniteSets, TLC

(***************************************************************************)
(* Bounds                                                                  *)
(***************************************************************************)
MaxRuns == 2          \* contexts in a suite
MaxIterations == 2    \* BotRunContext.iterations
MaxRetries == 1       \* max_retries as passed by BotAutomationPlan.contexts
MaxLen == 3           \* characters written to the monitored file
MaxPolls == 2         \* polls of one wait_for call before its deadline
MaxOccurrences == 2   \* occurrences a caller asks wait_for for
MaxExpectations == 2  \* expectation and assertion results in a TestRunResult
MaxActions == 2       \* actions in a script given to ScriptRunner.run
MaxStarts == 2        \* start() calls on one controller
MaxStops == 3         \* stop() calls on one controller
MaxSteps == 2         \* steps given to ScenarioCompiler.compile
MaxDepth == 8         \* nested _compile_step loops before Python's RecursionError
MaxItems == 2         \* commands, and actions, of a BotScript converted to JSON
MaxResults == 4       \* TestRunResults in a stream given to summarise_per_script
MaxRegistrations == 3 \* register_script calls on one orchestrator

VARIABLES
    \* ---- inputs of run_suite ----
    runs,             \* Sequence[BotRunContext]
    server_address,   \* TRUE: an explicit server address was given
    has_controller,   \* TRUE: self.server_controller is not None
    \* ---- run_suite / run position ----
    pc,               \* position of the single thread
    ctx,              \* index of the context being run (for run in runs)
    iteration,        \* 0-based iteration of the context (range(...))
    selected,         \* selected_clients of the current run
    ci,               \* index into selected of the client being processed
    log,              \* value returned by execute_script for that client
    exc,              \* exception in flight ("none" when there is none)
    client_results,   \* results list of _run_on_clients
    last_result,      \* TestRunResult returned by the last run()
    results,          \* results list of run_suite
    slept,            \* the time.sleep calls of run_suite, in order
    server_marked,    \* which call last marked the server log monitor in this run()
    \* ---- clients and transports ----
    connected,        \* clients whose connect returned and disconnect did not yet run
    connects,         \* per client: connect calls that returned
    disconnects,      \* per client: disconnect calls
    sent,             \* per client: scripts whose payloads reached the transport
    transport,        \* per client: the payloads its transport received, in order
    outcome,          \* per client: what execute_script did in the current run
    marked,           \* clients whose log monitors were marked by the current run
    \* ---- SampServerController ----
    process,          \* self._process: "none", "running" or "exited"
    started,          \* successful start() calls
    stopped,          \* stop() calls that found a process and released it
    \* ---- one log monitor (ServerLogMonitor / ClientLogMonitor) and its file ----
    exists,           \* log_path.exists()
    content,          \* the text of the file
    offset,           \* self._offset, the read cursor
    mark_offset,      \* self._mark_offset
    mpc,              \* "idle", or "wait" inside the loop of wait_for
    w_phrase,         \* phrase of the wait_for call
    w_occurrences,    \* occurrences asked for by the caller of the call
    w_polls,          \* polls done by the call
    w_count,          \* matches in the slices the call has read
    w_absent,         \* the file was absent at every poll of the call
    last_op,          \* the monitor operation that ended last
    hist,             \* the operations ended since the file last grew (last three)
    ret_bool,         \* value returned by the last wait_for
    ret_text,         \* value returned by the last collect_since_mark
    c_full,           \* include_full of the last collect_since_mark
    m_exc,            \* exception raised by the last monitor operation
    \* ---- a TestRunResult under the success verdict ----
    res,              \* the parts of the result the verdict reads
    verdict,          \* "none" or the value is_successful returned
    \* ---- a caller of the SampServerController API ----
    spc,              \* "idle", or "ready" inside the loop of wait_until_ready
    r_polls,          \* polls done by the wait_until_ready call
    ready,            \* what the last wait_until_ready did: "true", "false", "raised"
    returncode,       \* exit code of the process, "none" while it runs
    raised_with,      \* exit code the last RuntimeError of wait_until_ready carried
    stops,            \* stop() calls
    terminates,       \* terminate() requests sent to a process
    kills,            \* kill() requests sent to a process
    grace,            \* how wait(timeout=5) of the last stop() ended
    \* ---- run() with one client-log monitor (client "alpha", log "chatlog") ----
    lpc,              \* position of run()
    l_expect,         \* phrases of the client_log_expectations, in order
    l_index,          \* index of the expectation being evaluated
    l_matched,        \* matched of the ClientLogExpectationResults so far
    l_before,         \* length of the log when run() was called
    l_during,         \* length of the log when execute_script returned
    \* ---- ScriptRunner.run over a BufferedCommandTransport ----
    script,           \* the actions of the script (script.iter_actions())
    ppc,              \* position of ScriptRunner.run
    ai,               \* index of the action being processed
    payloads,         \* payloads of the action being processed
    pi,               \* payloads of that action already sent
    buffer,           \* transport.buffer
    flushed,          \* length of the buffer at the last flush()
    events,           \* the events list of the run
    p_exc,            \* exception that ended the run ("none" when there is none)
    \* ---- ScenarioCompiler.compile ----
    macros,           \* self.macros: name -> BotScriptMacro
    steps,            \* the steps given to compile()
    frames,           \* the calls of _compile_step in progress, innermost last
    compiled,         \* the compiled list built so far
    expected,         \* per compiled step: the step substituted in its active scope
    cpc,              \* position of compile()
    c_exc,            \* exception that left compile() ("none" when there is none)
    compile_result,   \* << >> until compile() returns, then <<the list returned>>
    \* ---- BotScript.to_json / from_json ----
    bot_script,       \* the BotScript s
    json_text,        \* s.to_json(), as the JSON value the text denotes
    parsed,           \* BotScript.from_json(json_text)
    jpc,              \* position of the round trip
    \* ---- summarise_per_script ----
    stream,           \* the TestRunResults of a suite, in the order run_suite returns them
    summary,          \* summarise_per_script(stream): description -> ScenarioStatistics
    upc,              \* "results" until the summary is computed, then "summary"
    \* ---- register_script ----
    files,            \* scripts_dir: file name -> text of the file
    returned,         \* the paths register_script returned, in call order
    r_script,         \* the script of the last register_script call
    r_calls,          \* number of register_script calls made
    r_exc,            \* exception of the last register_script ("none" when there is none)
    \* ---- WineSampClient.execute_script ----
    setup_actions,    \* self.setup_actions, as the actions of self._setup_script
    teardown_actions, \* self.teardown_actions, as the actions of self._teardown_script
    e_script,         \* the actions of the script given to execute_script
    phase,            \* which run of the runner execute_script is in
    playback          \* << >> until execute_script holds `log`, then <<its events>>

orchVars == <<runs, slept, server_marked, server_address, has_controller, pc, ctx, iteration, selected, ci,
              log, exc, client_results, last_result, results, connected, connects,
              disconnects, sent, transport, outcome, marked, process, started,
              stopped>>

monVars == <<exists, content, offset, mark_offset, mpc, w_phrase, w_occurrences,
             w_polls, w_count, w_absent, last_op, hist, ret_bool, ret_text,
             c_full, m_exc>>

resVars == <<res, verdict>>

srvVars == <<spc, r_polls, ready, returncode, raised_with, stops,
             terminates, kills, grace>>

logVars == <<lpc, l_expect, l_index, l_matched, l_before, l_during>>

playVars == <<script, ppc, ai, payloads, pi, buffer, flushed, events, p_exc>>

scnVars == <<macros, steps, frames, compiled, expected, cpc, c_exc, compile_result>>

jsonVars == <<bot_script, json_text, parsed, jpc>>

\* the variables of the components added to the model after the orchestrator
sumVars == <<stream, summary, upc>>

regVars == <<files, returned, r_script, r_calls, r_exc>>

wineVars == <<setup_actions, teardown_actions, e_script, phase, playback>>

extVars == <<scnVars, jsonVars, sumVars, regVars, wineVars>>

\* the variables of the orchestrator, its monitors, its controller and its runner
coreVars == <<orchVars, monVars, resVars, srvVars, logVars, playVars>>

\* everything but the compiler, but the round trip, but the summary, but the
\* registered scripts
notScn == <<coreVars, jsonVars, sumVars, regVars, wineVars>>

notJson == <<coreVars, scnVars, sumVars, regVars, wineVars>>

notSum == <<coreVars, scnVars, jsonVars, regVars, wineVars>>

notReg == <<coreVars, scnVars, jsonVars, sumVars, wineVars>>

\* everything but the runner and the client that owns it
notWine == <<orchVars, monVars, resVars, srvVars, logVars, scnVars, jsonVars, sumVars,
             regVars>>

vars == <<coreVars, extVars>>

(***************************************************************************)
(* The orchestrator's registered clients (self.clients, in list order) and *)
(* the names a context may ask for.  "ghost" is not registered.            *)
(***************************************************************************)
clients == <<"alpha", "beta">>

Range(s) == {s[k] : k \in 1..Len(s)}

client_lookup == Range(clients)

\* client.client_log_monitors(): "alpha" exposes a chatlog monitor, "beta" none.
client_log_monitors(c) == IF c = "alpha" THEN {"chatlog"} ELSE {}

NameChoices == {<< >>, <<"beta">>, <<"beta", "alpha">>, <<"ghost">>}

Max(a, b) == IF a >= b THEN a ELSE b

BoolSeqs(n) == [1..n -> BOOLEAN]

\* RunAssertionRule(type="command_count", ...): client_name "" stands for no
\* client named
CommandCountRule(client_name, min_value, max_value) ==
    [type |-> "command_count", client_name |-> client_name, min_value |-> min_value,
     max_value |-> max_value]

\* the assertions a caller attaches to a context
AssertionChoices ==
    { << >>,
      <<CommandCountRule("beta", 2, 2)>>,
      <<CommandCountRule("", 2, 2)>>,
      <<CommandCountRule("", 5, 5)>> }

\* BotRunContext (with the retry fields, the enabled flag and the assertions
\* its callers pass, which run_suite does not read): every combination,
\* used for single-context suites.
BotRunContext ==
    [client_names : NameChoices,
     expect_server_logs : 0..MaxExpectations,
     client_log_expectations : {<< >>, <<"alpha">>, <<"beta", "alpha">>},
     iterations : 0..MaxIterations,
     max_retries : {0},
     fail_fast : {FALSE},
     enabled : {TRUE},
     assertions : AssertionChoices,
     wait_before : {0},
     wait_after : {0},
     server_log_export : BOOLEAN]

\* The contexts of longer suites: they differ in the clients they name and in
\* their iteration and retry settings.
SuiteContext ==
    [client_names : {<< >>, <<"beta">>, <<"ghost">>},
     expect_server_logs : {0},
     client_log_expectations : {<< >>},
     iterations : 1..MaxIterations,
     max_retries : 0..MaxRetries,
     fail_fast : BOOLEAN,
     enabled : BOOLEAN,
     assertions : {<< >>},
     wait_before : {0},
     wait_after : {0},
     server_log_export : {FALSE}]

NoResult == [ctx |-> 0, iteration |-> 0, client_results |-> << >>,
             log_expectations |-> << >>, client_log_expectations |-> << >>]

InitOrch ==
    /\ pc = "suite"
    /\ ctx = 1
    /\ iteration = 0
    /\ selected = << >>
    /\ ci = 0
    /\ log = "none"
    /\ exc = "none"
    /\ client_results = << >>
    /\ last_result = NoResult
    /\ results = << >>
    /\ slept = << >>
    /\ server_marked = "none"
    /\ connected = {}
    /\ connects = [c \in client_lookup |-> 0]
    /\ disconnects = [c \in client_lookup |-> 0]
    /\ sent = [c \in client_lookup |-> 0]
    /\ transport = [c \in client_lookup |-> << >>]
    /\ outcome = [c \in client_lookup |-> "none"]
    /\ marked = {}
    /\ process = "none"
    /\ started = 0
    /\ stopped = 0

\* a fresh monitor (_offset = 0, _mark_offset = 0) on a file not yet created
InitMonitor ==
    /\ exists = FALSE
    /\ content = << >>
    /\ offset = 0
    /\ mark_offset = 0
    /\ mpc = "idle"
    /\ w_phrase = << >>
    /\ w_occurrences = 1
    /\ w_polls = 0
    /\ w_count = 0
    /\ w_absent = FALSE
    /\ last_op = "none"
    /\ hist = << >>
    /\ ret_bool = FALSE
    /\ ret_text = << >>
    /\ c_full = FALSE
    /\ m_exc = "none"

NoVerdict ==
    /\ res = [client_results |-> << >>, log_expectations |-> << >>,
              client_log_expectations |-> << >>, assertions |-> << >>]
    /\ verdict = "none"

\* a controller nobody has called yet
IdleController ==
    /\ spc = "idle"
    /\ r_polls = 0
    /\ ready = "none"
    /\ returncode = "none"
    /\ raised_with = "none"
    /\ stops = 0
    /\ terminates = 0
    /\ kills = 0
    /\ grace = "none"

\* no run() over the monitored client log
IdleLogRun ==
    /\ lpc = "idle"
    /\ l_expect = << >>
    /\ l_index = 0
    /\ l_matched = << >>
    /\ l_before = 0
    /\ l_during = 0

\* no ScriptRunner.run, an empty BufferedCommandTransport
IdleRunner ==
    /\ script = << >>
    /\ ppc = "idle"
    /\ ai = 0
    /\ payloads = << >>
    /\ pi = 0
    /\ buffer = << >>
    /\ flushed = 0
    /\ events = << >>
    /\ p_exc = "none"

\* run_suite(runs, server_address) on an orchestrator with a server controller
\* a compiler nobody has called yet
IdleCompiler ==
    /\ macros = << >>
    /\ steps = << >>
    /\ frames = << >>
    /\ compiled = << >>
    /\ expected = << >>
    /\ cpc = "idle"
    /\ c_exc = "none"
    /\ compile_result = << >>

\* no script converted yet
IdleJson ==
    /\ bot_script = << >>
    /\ json_text = << >>
    /\ parsed = << >>
    /\ jpc = "idle"

\* no result summarised yet
IdleSummary ==
    /\ stream = << >>
    /\ summary = << >>
    /\ upc = "idle"

\* an empty scripts_dir and no script registered yet
IdleRegistry ==
    /\ files = << >>
    /\ returned = << >>
    /\ r_script = << >>
    /\ r_calls = 0
    /\ r_exc = "none"

\* no WineSampClient
IdleWine ==
    /\ setup_actions = << >>
    /\ teardown_actions = << >>
    /\ e_script = << >>
    /\ phase = "idle"
    /\ playback = << >>

IdleExt == IdleCompiler /\ IdleJson /\ IdleSummary /\ IdleRegistry /\ IdleWine

Init ==
    /\ runs \in UNION {[1..n -> SuiteContext] : n \in 1..MaxRuns}
    /\ server_address \in BOOLEAN
    /\ has_controller = TRUE
    /\ InitOrch
    /\ InitMonitor
    /\ NoVerdict
    /\ IdleController
    /\ IdleExt
    /\ IdleLogRun
    /\ IdleRunner

\* run_suite([context], server_address): one context of any shape.
InitRun ==
    /\ runs \in [1..1 -> BotRunContext]
    /\ server_address \in BOOLEAN
    /\ has_controller \in BOOLEAN
    /\ InitOrch
    /\ InitMonitor
    /\ NoVerdict
    /\ IdleController
    /\ IdleExt
    /\ IdleLogRun
    /\ IdleRunner

(***************************************************************************)
(* ActionTranslator.translate.  A ScriptAction is a record: its type, its  *)
(* payload (a function from the keys that are present to their values,    *)
(* all strings, None standing for Python's None), the list under           *)
(* "commands", "steps" or "keys" (empty when there is none) and its delay. *)
(* A wire payload is the sequence of the pieces its f-string joins.        *)
(***************************************************************************)
None == "None"

NoPayload == [k \in {} |-> None]

\* dict.get(key, default)
Get(payload, key, default) ==
    IF key \in DOMAIN payload THEN payload[key] ELSE default

\* str.strip() and str.upper() on the key names in use
Strip(v) == IF v = " " THEN "" ELSE v

\* an upper() that leaves the key as it was written
Upper_AsWritten(v) == v

Upper(v) == IF v = "f" THEN "F" ELSE IF v = None THEN "NONE" ELSE v

\* str.lower() on the key states in use
Lower(v) == IF v = "DOWN" THEN "down" ELSE v

\* str(float(v))
Float(v) == IF v = "1" THEN "1.0" ELSE IF v = "2" THEN "2.0" ELSE v

Returns(ps) == [raises |-> FALSE, payloads |-> ps]

Raises == [raises |-> TRUE, payloads |-> << >>]

\* the last lines of translate: the literal command, or ACTION:<type>
generic_command(action) ==
    LET c == Get(action.payload, "command", None)
        command == IF c # None /\ c # "" THEN c
                   ELSE Get(action.payload, "value", None)
    IN IF command = None
          THEN Returns(<< <<"ACTION", action.type>> >>)
          ELSE Returns(<< <<command>> >>)

\* a translate that lets an action with a missing field through as a generic
\* command
translate_Lenient(action) == generic_command(action)

translate(action) ==
    LET p == action.payload IN
    CASE action.type = "chat" /\ Get(p, "message", None) # None ->
            Returns(<< <<"CHAT ", p["message"]>> >>)
      [] action.type = "wait" ->
            Returns(<< <<"WAIT", action.delay>> >>)
      [] action.type = "teleport" ->
            Returns(<< <<"TELEPORT", Float(Get(p, "x", "0.0")), Float(Get(p, "y", "0.0")),
                         Float(Get(p, "z", "0.0")), Get(p, "interior", "0"),
                         Get(p, "world", "0")>> >>)
      [] action.type \in {"key", "keypress"} ->
            LET key == Strip(Get(p, "key", ""))
                state == Lower(Get(p, "state", "press"))
            IN IF key = "" THEN Raises
               ELSE IF state = "press"
                       THEN Returns(<< <<"KEY", Upper(key), "down">>,
                                       <<"KEY", Upper(key), "up">> >>)
               ELSE IF state \in {"down", "hold"}
                       THEN Returns(<< <<"KEY", Upper(key), "down">> >>)
               ELSE IF state \in {"up", "release"}
                       THEN Returns(<< <<"KEY", Upper(key), "up">> >>)
               ELSE Raises
      [] action.type = "option" ->
            LET name == Get(p, "name", Get(p, "key", ""))
            IN IF name = "" THEN Raises
               ELSE Returns(<< <<"OPTION", name, Get(p, "value", None)>> >>)
      [] action.type \in {"sequence", "macro"} ->
            IF action.commands = << >> THEN Raises
            ELSE Returns([k \in 1..Len(action.commands) |-> <<action.commands[k]>>])
      [] action.type = "wait_for" ->
            Returns(<< <<"WAITFOR", Float(Get(p, "timeout", Get(p, "seconds", "10.0"))),
                         Get(p, "phrase", Get(p, "value", ""))>> >>)
      [] action.type = "focus_window" ->
            LET title == Get(p, "title", None)
            IN IF title # None /\ title # ""
                  THEN Returns(<< <<"FOCUS", title>> >>)
                  ELSE Returns(<< <<"FOCUS">> >>)
      [] action.type = "type_text" ->
            LET text == Get(p, "text", Get(p, "value", None))
            IN IF text = None THEN Raises
               ELSE Returns(<< <<"TYPE", text>> >>)
      [] action.type \in {"mouse_move", "mouse"} ->
            LET x == Get(p, "x", None)
                y == Get(p, "y", None)
            IN IF x = None \/ y = None THEN Raises
               ELSE Returns(<< <<"MOUSE", Get(p, "mode", "absolute"), Float(x), Float(y),
                                 Float(Get(p, "duration", "0.0"))>> >>)
      [] action.type \in {"mouse_click", "click"} ->
            Returns(<< <<"MOUSECLICK", Get(p, "button", "left"),
                         Get(p, "state", Get(p, "mode", "click"))>> >>)
      [] action.type = "screenshot" ->
            LET target == IF Get(p, "path", None) \notin {None, ""}
                             THEN p["path"] ELSE Get(p, "directory", None)
            IN IF target \notin {None, ""}
                  THEN Returns(<< <<"SCREENSHOT", Get(p, "name", "capture"), target>> >>)
                  ELSE Returns(<< <<"SCREENSHOT", Get(p, "name", "capture")>> >>)
      [] action.type = "config" ->
            LET name == Get(p, "name", Get(p, "key", ""))
            IN IF name = "" THEN Raises
               ELSE Returns(<< <<"CONFIG", name, Get(p, "value", None)>> >>)
      [] OTHER -> generic_command(action)

(***************************************************************************)
(* ScriptRunner.run over a BufferedCommandTransport, with no on_event      *)
(* callback (DummyBotClient).  The inputs are the scripts of up to         *)
(* MaxActions actions over ScriptActions: for every action type that has a *)
(* required field, one action with the field and one without; for the key  *)
(* press, one action for every state the translator knows and one for a    *)
(* state it does not know.                                                 *)
(***************************************************************************)
Action(type, payload) ==
    [type |-> type, payload |-> payload, commands |-> << >>, delay |-> "0.0"]

Macro(commands) ==
    [type |-> "macro", payload |-> NoPayload, commands |-> commands, delay |-> "0.0"]

\* {"type": "key_combo", "keys": [...], "hold": ...}: the keys are the list
KeyCombo(keys, payload) ==
    [type |-> "key_combo", payload |-> payload, commands |-> keys, delay |-> "0.0"]

ScriptActions ==
    { Action("command", "command" :> "/one"),
      Action("command", "command" :> "/two"),
      Action("chat", "message" :> "hi"),
      Action("chat", NoPayload),
      [Action("wait", "seconds" :> "1") EXCEPT !.delay = "1.0"],
      Action("keypress", "key" :> "f"),
      Action("keypress", ("key" :> "f") @@ ("state" :> "up")),
      Action("keypress", ("key" :> "f") @@ ("state" :> "press")),
      Action("keypress", ("key" :> "f") @@ ("state" :> "hold")),
      Action("keypress", ("key" :> "f") @@ ("state" :> "release")),
      Action("keypress", ("key" :> "f") @@ ("state" :> "toggle")),
      Action("key", ("key" :> "f") @@ ("state" :> "DOWN")),
      Action("keypress", NoPayload),
      Action("keypress", "state" :> "down"),
      Action("option", ("name" :> "volume") @@ ("value" :> "1")),
      Action("option", "key" :> "volume"),
      Action("option", "value" :> "1"),
      Action("config", ("name" :> "fps") @@ ("value" :> "1")),
      Action("config", NoPayload),
      Action("type_text", "text" :> "hello"),
      Action("type_text", NoPayload),
      Action("mouse_move", ("x" :> "1") @@ ("y" :> "2")),
      Action("mouse_move", "x" :> "1"),
      Action("mouse_move", "y" :> "2"),
      KeyCombo(<<"ctrl", "s">>, "hold" :> "0.1"),
      KeyCombo(<<"ctrl", "s">>, NoPayload),
      Macro(<<"/a", "/b">>),
      Macro(<< >>),
      [Macro(<< >>) EXCEPT !.type = "sequence"] }

InitPlay ==
    /\ runs = << >>
    /\ server_address = TRUE
    /\ has_controller = TRUE
    /\ InitOrch
    /\ InitMonitor
    /\ NoVerdict
    /\ IdleController
    /\ IdleExt
    /\ IdleLogRun
    /\ script \in UNION {[1..n -> ScriptActions] : n \in 0..MaxActions}
    /\ ppc = "translate"
    /\ ai = 1
    /\ payloads = << >>
    /\ pi = 0
    /\ buffer = << >>
    /\ flushed = 0
    /\ events = << >>
    /\ p_exc = "none"

\* payloads = self.translator.translate(action); a ValueError leaves run()
runner_translate ==
    /\ ppc = "translate"
    /\ ai <= Len(script)
    /\ LET r == translate(script[ai]) IN
       IF r.raises
          THEN /\ p_exc' = "ValueError"
               /\ ppc' = "raised"
               /\ UNCHANGED <<payloads, pi>>
          ELSE /\ payloads' = r.payloads
               /\ pi' = 0
               /\ ppc' = "send"
               /\ UNCHANGED p_exc
    /\ UNCHANGED <<orchVars, monVars, resVars, extVars, srvVars, logVars, script, ai, buffer,
                   flushed, events>>

\* a transport that keeps the newest payload first
runner_send_Prepend ==
    /\ ppc = "send"
    /\ pi < Len(payloads)
    /\ buffer' = <<payloads[pi + 1]>> \o buffer
    /\ pi' = pi + 1
    /\ UNCHANGED <<orchVars, monVars, resVars, extVars, srvVars, logVars, script, ppc, ai,
                   payloads, flushed, events, p_exc>>

\* for payload in payloads: self.transport.send(payload)
runner_send ==
    /\ ppc = "send"
    /\ pi < Len(payloads)
    /\ buffer' = Append(buffer, payloads[pi + 1])
    /\ pi' = pi + 1
    /\ UNCHANGED <<orchVars, monVars, resVars, extVars, srvVars, logVars, script, ppc, ai,
                   payloads, flushed, events, p_exc>>

\* self.transport.flush(), after the last payload of the action
runner_flush ==
    /\ ppc = "send"
    /\ pi = Len(payloads)
    /\ flushed' = Len(buffer)
    /\ ppc' = "event"
    /\ UNCHANGED <<orchVars, monVars, resVars, extVars, srvVars, logVars, script, ai, payloads,
                   pi, buffer, events, p_exc>>

\* events.append(PlaybackEvent(action, payloads, timestamp)); next action
runner_event ==
    /\ ppc = "event"
    /\ events' = Append(events, [action |-> script[ai], command_payloads |-> payloads])
    /\ ai' = ai + 1
    /\ ppc' = "translate"
    /\ UNCHANGED <<orchVars, monVars, resVars, extVars, srvVars, logVars, script, payloads, pi,
                   buffer, flushed, p_exc>>

\* return PlaybackLog(script.description, tuple(events))
runner_return ==
    /\ ppc = "translate"
    /\ ai > Len(script)
    /\ ppc' = "returned"
    /\ UNCHANGED <<orchVars, monVars, resVars, extVars, srvVars, logVars, script, ai, payloads,
                   pi, buffer, flushed, events, p_exc>>

NextPlay ==
    \/ runner_translate
    \/ runner_send
    \/ runner_flush
    \/ runner_event
    \/ runner_return

SpecPlay == InitPlay /\ [][NextPlay]_vars

\* PlaybackLog.commands_sent(): the payloads of the events, concatenated
RECURSIVE commands_sent(_)
commands_sent(evs) ==
    IF evs = << >> THEN << >>
    ELSE evs[1].command_payloads \o commands_sent(Tail(evs))

(***************************************************************************)
(* Claims about ScriptRunner.run and ActionTranslator.translate            *)
(***************************************************************************)
\* C19: at every point of run() the events recorded are those of the actions
\* before the current one, in script order, each with the payloads translate
\* gave for it; the transport holds the payloads of these events in order,
\* followed by the payloads of the current action sent so far, and everything
\* of the earlier actions was flushed before the current action's first send;
\* when run() returns there is one event per action and the payloads of the
\* events, concatenated, are what the transport received.
C19_OrderedPlayback ==
    /\ Len(events) = ai - 1
    /\ \A k \in 1..Len(events) :
          /\ events[k].action = script[k]
          /\ events[k].command_payloads = translate(script[k]).payloads
    /\ ppc \in {"translate", "returned", "raised"}
          => (buffer = commands_sent(events) /\ flushed = Len(buffer))
    /\ ppc = "send"
          => /\ buffer = commands_sent(events) \o SubSeq(payloads, 1, pi)
             /\ flushed = Len(commands_sent(events))
    /\ ppc = "event"
          => (buffer = commands_sent(events) \o payloads /\ flushed = Len(buffer))
    /\ ppc = "returned" => Len(events) = Len(script)

\* run() returned for a script of two actions, the first with two payloads
C19_Witness ==
    /\ ppc = "returned"
    /\ Len(events) = 2
    /\ Len(events[1].command_payloads) = 2
    /\ Len(buffer) = 3
    /\ flushed = 3

\* the action lacks a field its type requires (a name given under "key", a
\* text given under "value" count as given)
Missing(action) ==
    LET keys == DOMAIN action.payload IN
    \/ action.type \in {"key", "keypress"} /\ "key" \notin keys
    \/ action.type \in {"option", "config"} /\ "name" \notin keys /\ "key" \notin keys
    \/ action.type = "type_text" /\ "text" \notin keys /\ "value" \notin keys
    \/ action.type \in {"mouse_move", "mouse"} /\ ("x" \notin keys \/ "y" \notin keys)
    \/ action.type \in {"sequence", "macro"} /\ action.commands = << >>

\* C20: an action that lacks a required field never gets a payload sent nor
\* an event recorded: run() ends at it with ValueError, the transport holding
\* exactly the payloads of the actions before it; a run() that returns had no
\* such action in its script.
C20_TranslationValidation ==
    /\ \A k \in 1..Len(events) : ~Missing(events[k].action)
    /\ ppc \in {"send", "event"} => ~Missing(script[ai])
    /\ (ppc = "translate" /\ ai <= Len(script) /\ Missing(script[ai]))
          => translate(script[ai]).raises
    /\ ppc = "raised"
          => /\ p_exc = "ValueError"
             /\ Len(events) = ai - 1
             /\ buffer = commands_sent(events)
             /\ \A k \in 1..(ai - 1) : ~Missing(script[k])
    /\ ppc = "returned" => \A k \in 1..Len(script) : ~Missing(script[k])

\* the second action lacked a field: run() raised after the payloads of the
\* first were sent
C20_Witness ==
    /\ ppc = "raised"
    /\ ai = 2
    /\ Missing(script[2])
    /\ Len(buffer) >= 1
    /\ buffer = events[1].command_payloads

\* a key press of the key f
IsKeyF(action) ==
    /\ action.type \in {"key", "keypress"}
    /\ "key" \in DOMAIN action.payload
    /\ action.payload["key"] = "f"

\* the state of a key press as the claim reads it: press when none is given,
\* letter case aside
KeyState(action) ==
    LET state == Get(action.payload, "state", "press")
    IN IF state = "DOWN" THEN "down" ELSE state

\* the payloads the claim gives a key press of f in a known state
KeyPayloads(action) ==
    CASE KeyState(action) = "press" -> << <<"KEY", "F", "down">>, <<"KEY", "F", "up">> >>
      [] KeyState(action) \in {"down", "hold"} -> << <<"KEY", "F", "down">> >>
      [] KeyState(action) \in {"up", "release"} -> << <<"KEY", "F", "up">> >>

KnownKeyStates == {"press", "down", "hold", "up", "release"}

\* C23: a key press of f in state press (or with no state) is translated to
\* KEY:F:down then KEY:F:up, in state down or hold to the down payload only,
\* in state up or release to the up payload only; in any other state
\* translate raises and the action gets no payload and no event.
C23_KeypressTranslation ==
    /\ \A k \in 1..Len(events) :
          IsKeyF(events[k].action)
             => /\ KeyState(events[k].action) \in KnownKeyStates
                /\ events[k].command_payloads = KeyPayloads(events[k].action)
    /\ (ppc \in {"send", "event"} /\ IsKeyF(script[ai]))
          => /\ KeyState(script[ai]) \in KnownKeyStates
             /\ payloads = KeyPayloads(script[ai])
    /\ (ppc = "raised" /\ IsKeyF(script[ai]))
          => (KeyState(script[ai]) \notin KnownKeyStates /\ p_exc = "ValueError")
    /\ (ppc = "translate" /\ ai <= Len(script) /\ IsKeyF(script[ai]))
          => (translate(script[ai]).raises <=> KeyState(script[ai]) \notin KnownKeyStates)

\* a press with no state gave the down and up payloads, then a release gave
\* the up payload only
C23_Witness ==
    /\ ppc = "returned"
    /\ Len(events) = 2
    /\ events[1].action = Action("keypress", "key" :> "f")
    /\ events[2].action = Action("keypress", ("key" :> "f") @@ ("state" :> "release"))
    /\ buffer = << <<"KEY", "F", "down">>, <<"KEY", "F", "up">>, <<"KEY", "F", "up">> >>

\* the keys of the combinations in use, upper-cased
ComboKey == ("ctrl" :> "CTRL") @@ ("s" :> "S")

\* the payloads the claim gives a key_combo: every key down in order, WAIT:h
\* when a hold is given, every key up in reverse order
ComboPayloads(action) ==
    LET keys == action.commands
        n == Len(keys)
    IN [i \in 1..n |-> <<"KEY", ComboKey[keys[i]], "down">>]
       \o (IF "hold" \in DOMAIN action.payload
              THEN << <<"WAIT", action.payload["hold"]>> >> ELSE << >>)
       \o [i \in 1..n |-> <<"KEY", ComboKey[keys[n + 1 - i]], "up">>]

\* C24: the event of a key_combo action holds the down payloads of its keys
\* in order, then the wait of the hold when one is given, then the up
\* payloads in reverse order.
C24_KeyComboTranslation ==
    \A k \in 1..Len(events) :
        events[k].action.type = "key_combo"
           => events[k].command_payloads = ComboPayloads(events[k].action)

\* the script of every context: BotScript(commands=("/one", "/two")), as the
\* actions iter_actions() makes of it
suite_script ==
    <<Action("command", "command" :> "/one"), Action("command", "command" :> "/two")>>

\* the payloads ScriptRunner.run delivers for a script no action of which raises
RECURSIVE script_payloads(_)
script_payloads(sc) ==
    IF sc = << >> THEN << >>
    ELSE translate(sc[1]).payloads \o script_payloads(Tail(sc))

(***************************************************************************)
(* TestOrchestrator.run_suite                                              *)
(***************************************************************************)
\* one time.sleep call of run_suite: which wait, of which context, around
\* which iteration, and how many results run_suite held then
Sleep(kind, seconds) ==
    [kind |-> kind, ctx |-> ctx, iteration |-> iteration, seconds |-> seconds,
     results |-> Len(results)]

\* a loop head that sleeps wait_before in front of every iteration
sleeps_before_EveryIteration == runs[ctx].wait_before > 0

\* if run.wait_before > 0 and iteration == 0
sleeps_before == runs[ctx].wait_before > 0 /\ iteration = 0

\* if run.wait_after > 0 and iteration + 1 < run.iterations
sleeps_after == runs[ctx].wait_after > 0 /\ iteration + 1 < runs[ctx].iterations

\* the loop head: the next (run, iteration) pair sleeps wait_before in front
\* of the first iteration and calls self.run(...)
run_suite_call ==
    /\ pc = "suite"
    /\ ctx <= Len(runs)
    /\ slept' = IF sleeps_before
                   THEN Append(slept, Sleep("wait_before", runs[ctx].wait_before))
                   ELSE slept
    /\ pc' = "run"
    /\ UNCHANGED <<monVars, resVars, extVars, srvVars, logVars, playVars, runs, server_marked, server_address, has_controller, ctx, iteration, selected, ci,
                   log, exc, client_results, last_result, results, connected,
                   connects, disconnects, sent, transport, outcome, marked, process, started,
                   stopped>>

\* results.append(result), the wait_after sleep, then the next iteration or
\* the next context
run_suite_append ==
    /\ pc = "return"
    /\ results' = Append(results, last_result)
    /\ slept' = IF sleeps_after
                   THEN Append(slept, Sleep("wait_after", runs[ctx].wait_after))
                   ELSE slept
    /\ IF iteration + 1 < Max(1, runs[ctx].iterations)
          THEN /\ iteration' = iteration + 1
               /\ ctx' = ctx
          ELSE /\ iteration' = 0
               /\ ctx' = ctx + 1
    /\ pc' = "suite"
    /\ UNCHANGED <<monVars, resVars, extVars, srvVars, logVars, playVars, runs, server_marked, server_address, has_controller, selected, ci, log, exc,
                   client_results, last_result, connected, connects, disconnects,
                   sent, transport, outcome, marked, process, started, stopped>>

\* return results
run_suite_return ==
    /\ pc = "suite"
    /\ ctx > Len(runs)
    /\ pc' = "done"
    /\ UNCHANGED <<monVars, resVars, extVars, srvVars, logVars, playVars, runs, slept, server_marked, server_address, has_controller, ctx, iteration, selected, ci,
                   log, exc, client_results, last_result, results, connected,
                   connects, disconnects, sent, transport, outcome, marked, process, started,
                   stopped>>

(***************************************************************************)
(* TestOrchestrator.run                                                    *)
(***************************************************************************)
\* a selection that ignores the names
select_clients_All(client_names) == clients

\* _select_clients: all clients when no name is given, else the named ones
select_clients(client_names) ==
    IF client_names = << >> THEN clients ELSE client_names

\* a selection that accepts every name
select_raises_Never(client_names) == FALSE

\* _select_clients raises KeyError for a name that is not registered
select_raises(client_names) ==
    \E k \in 1..Len(client_names) : client_names[k] \notin client_lookup

\* _collect_client_monitors: mark() every monitor of every selected client
collect_client_monitors(sel) ==
    {c \in Range(sel) : client_log_monitors(c) # {}}

\* where an exception raised inside the body of run() goes: through the
\* finally of running() when run() owns the server, else out of run()
Unwind == IF server_address THEN "raised" ELSE "stop"

\* run(): selection, monitor marking, and the choice of the server
run_begin ==
    /\ pc = "run"
    /\ client_results' = << >>
    /\ log' = "none"
    /\ server_marked' = "none"
    /\ outcome' = [c \in client_lookup |-> "none"]
    /\ IF select_raises(runs[ctx].client_names)
          THEN /\ exc' = "KeyError"
               /\ pc' = "raised"
               /\ UNCHANGED <<selected, ci, marked>>
          ELSE /\ selected' = select_clients(runs[ctx].client_names)
               /\ marked' = collect_client_monitors(selected')
               /\ ci' = 1
               /\ IF server_address
                     THEN pc' = "connect" /\ exc' = "none"
                     ELSE IF ~has_controller
                             THEN pc' = "raised" /\ exc' = "ValueError"
                             ELSE pc' = "start" /\ exc' = "none"
    /\ UNCHANGED <<monVars, resVars, extVars, srvVars, logVars, playVars, runs, slept, server_address, has_controller, ctx, iteration, last_result,
                   results, connected, connects, disconnects, sent, transport, process, started,
                   stopped>>

(***************************************************************************)
(* SampServerController                                                    *)
(***************************************************************************)
\* start(): FileNotFoundError when the binary is missing (raised before the
\* try of running(), so nothing is released); else mark the log monitor and
\* spawn the process
start ==
    /\ pc = "start"
    /\ \E binary_exists \in BOOLEAN :
          IF binary_exists
             THEN /\ process' = "running"
                  /\ started' = started + 1
                  /\ server_marked' = "start"
                  /\ pc' = "ready"
                  /\ exc' = "none"
             ELSE /\ exc' = "FileNotFoundError"
                  /\ pc' = "raised"
                  /\ UNCHANGED <<process, started, server_marked>>
    /\ UNCHANGED <<monVars, resVars, extVars, srvVars, logVars, playVars, runs, slept, server_address, has_controller, ctx, iteration, selected, ci,
                   log, client_results, last_result, results, connected, connects,
                   disconnects, sent, transport, outcome, marked, stopped>>

\* the server process ends on its own (crash or exit); the controller still
\* holds the Popen object
process_exits ==
    /\ process = "running"
    /\ process' = "exited"
    /\ UNCHANGED <<monVars, resVars, extVars, srvVars, logVars, playVars, runs, slept, server_marked, server_address, has_controller, pc, ctx, iteration, selected,
                   ci, log, exc, client_results, last_result, results, connected,
                   connects, disconnects, sent, transport, outcome, marked, started, stopped>>

\* a wait_until_ready whose False is not turned into TimeoutError: the body of
\* the with block is entered although the server was not reported ready
wait_until_ready_IgnoresTimeout ==
    /\ pc = "ready"
    /\ IF process = "exited"
          THEN /\ exc' = "RuntimeError"
               /\ pc' = "stop"
               /\ UNCHANGED server_marked
          ELSE \E found \in BOOLEAN :
                  /\ pc' = "connect"
                  /\ exc' = "none"
                  /\ server_marked' = IF found THEN "ready" ELSE server_marked
    /\ UNCHANGED <<monVars, resVars, extVars, srvVars, logVars, playVars, runs, slept, server_address, has_controller, ctx, iteration, selected, ci,
                   log, client_results, last_result, results, connected, connects,
                   disconnects, sent, transport, outcome, marked, process, started, stopped>>

\* wait_until_ready() as called by running(): RuntimeError when poll() shows the
\* process gone, True when the startup phrase is in the log, False at the
\* deadline, which running() turns into TimeoutError.  On True the body of the
\* with block starts with monitor.mark().
wait_until_ready ==
    /\ pc = "ready"
    /\ IF process = "exited"
          THEN /\ exc' = "RuntimeError"
               /\ pc' = "stop"
               /\ UNCHANGED server_marked
          ELSE \E found \in BOOLEAN :
                  IF found
                     THEN /\ pc' = "connect"
                          /\ exc' = "none"
                          /\ server_marked' = "ready"
                     ELSE /\ exc' = "TimeoutError"
                          /\ pc' = "stop"
                          /\ UNCHANGED server_marked
    /\ UNCHANGED <<monVars, resVars, extVars, srvVars, logVars, playVars, runs, slept, server_address, has_controller, ctx, iteration, selected, ci,
                   log, client_results, last_result, results, connected, connects,
                   disconnects, sent, transport, outcome, marked, process, started, stopped>>

\* the finally of running(): stop() terminates (or kills) the process if one is
\* held and forgets it; then the with block is left, normally or by the
\* exception in flight
running_exit_NoFinally ==
    /\ pc = "stop"
    /\ IF exc = "none"
          THEN /\ process' = "none"
               /\ stopped' = IF process = "none" THEN stopped ELSE stopped + 1
               /\ pc' = "return"
          ELSE /\ pc' = "raised"
               /\ UNCHANGED <<process, stopped>>
    /\ UNCHANGED <<monVars, resVars, extVars, srvVars, logVars, playVars, runs, slept, server_marked, server_address, has_controller, ctx, iteration, selected, ci,
                   log, exc, client_results, last_result, results, connected,
                   connects, disconnects, sent, transport, outcome, marked, started>>

\* a with block that swallows the exception and has the run attempted again
running_exit_Retry ==
    /\ pc = "stop"
    /\ process' = "none"
    /\ stopped' = IF process = "none" THEN stopped ELSE stopped + 1
    /\ pc' = IF exc = "none" THEN "return" ELSE "run"
    /\ exc' = "none"
    /\ UNCHANGED <<monVars, resVars, extVars, srvVars, logVars, playVars, runs, slept, server_marked, server_address,
                   has_controller, ctx, iteration, selected, ci, log, client_results,
                   last_result, results, connected, connects, disconnects, sent,
                   transport, outcome, marked, started>>

running_exit ==
    /\ pc = "stop"
    /\ process' = "none"
    /\ stopped' = IF process = "none" THEN stopped ELSE stopped + 1
    /\ pc' = IF exc = "none" THEN "return" ELSE "raised"
    /\ UNCHANGED <<monVars, resVars, extVars, srvVars, logVars, playVars, runs, slept, server_marked, server_address, has_controller, ctx, iteration, selected, ci,
                   log, exc, client_results, last_result, results, connected,
                   connects, disconnects, sent, transport, outcome, marked, started>>

(***************************************************************************)
(* TestOrchestrator._run_on_clients                                        *)
(***************************************************************************)
\* client.connect(server_address); it is called outside the try, so an error
\* here leaves run() without a disconnect
run_on_clients_connect ==
    /\ pc = "connect"
    /\ \E ok \in BOOLEAN :
          IF ok
             THEN /\ connected' = connected \cup {selected[ci]}
                  /\ connects' = [connects EXCEPT ![selected[ci]] = @ + 1]
                  /\ pc' = "execute"
                  /\ exc' = "none"
             ELSE /\ exc' = "ConnectError"
                  /\ pc' = Unwind
                  /\ UNCHANGED <<connected, connects>>
    /\ UNCHANGED <<monVars, resVars, extVars, srvVars, logVars, playVars, runs, slept, server_marked, server_address, has_controller, ctx, iteration, selected, ci,
                   log, client_results, last_result, results, disconnects, sent, transport,
                   outcome, marked, process, started, stopped>>

\* log = client.execute_script(script): a PlaybackLog, None, or an exception;
\* the script's payloads reach the transport when a log is returned; a client
\* that returns None or raises has failed before it sent any
run_on_clients_execute ==
    /\ pc = "execute"
    /\ \E o \in {"log", "null", "raise"} :
          /\ outcome' = [outcome EXCEPT ![selected[ci]] = o]
          /\ log' = IF o = "raise" THEN "none" ELSE o
          /\ exc' = IF o = "raise" THEN "ClientError" ELSE "none"
          /\ sent' = IF o = "log" THEN [sent EXCEPT ![selected[ci]] = @ + 1] ELSE sent
          /\ transport' = IF o = "log"
                              THEN [transport EXCEPT ![selected[ci]] =
                                       @ \o script_payloads(suite_script)]
                              ELSE transport
    /\ pc' = "disconnect"
    /\ UNCHANGED <<monVars, resVars, extVars, srvVars, logVars, playVars, runs, slept, server_marked, server_address, has_controller, ctx, iteration, selected, ci,
                   client_results, last_result, results, connected, connects,
                   disconnects, marked, process, started, stopped>>

\* a version without the finally: an exception skips disconnect()
run_on_clients_disconnect_NoFinally ==
    /\ pc = "disconnect"
    /\ IF exc # "none"
          THEN /\ pc' = Unwind
               /\ UNCHANGED <<connected, disconnects, client_results, ci>>
          ELSE /\ connected' = connected \ {selected[ci]}
               /\ disconnects' = [disconnects EXCEPT ![selected[ci]] = @ + 1]
               /\ client_results' =
                     Append(client_results, [client_name |-> selected[ci], log |-> log])
               /\ IF ci < Len(selected)
                     THEN ci' = ci + 1 /\ pc' = "connect"
                     ELSE ci' = ci /\ pc' = "evaluate"
    /\ UNCHANGED <<monVars, resVars, extVars, srvVars, logVars, playVars, runs, slept, server_marked, server_address, has_controller, ctx, iteration, selected, log,
                   exc, last_result, results, connects, sent, transport, outcome, marked,
                   process, started, stopped>>

\* finally: client.disconnect(); then the exception goes on, or the
\* ClientRunResult is appended and the loop moves to the next client
run_on_clients_disconnect ==
    /\ pc = "disconnect"
    /\ connected' = connected \ {selected[ci]}
    /\ disconnects' = [disconnects EXCEPT ![selected[ci]] = @ + 1]
    /\ IF exc # "none"
          THEN /\ pc' = Unwind
               /\ UNCHANGED <<client_results, ci>>
          ELSE /\ client_results' =
                     Append(client_results, [client_name |-> selected[ci], log |-> log])
               /\ IF ci < Len(selected)
                     THEN ci' = ci + 1 /\ pc' = "connect"
                     ELSE ci' = ci /\ pc' = "evaluate"
    /\ UNCHANGED <<monVars, resVars, extVars, srvVars, logVars, playVars, runs, slept, server_marked, server_address, has_controller, ctx, iteration, selected, log,
                   exc, last_result, results, connects, sent, transport, outcome, marked,
                   process, started, stopped>>

(***************************************************************************)
(* Expectations and the result of run()                                    *)
(***************************************************************************)
\* _evaluate_expectations raises ValueError when phrases are given and there
\* is no server monitor (an explicit server address)
evaluate_raises == runs[ctx].expect_server_logs > 0 /\ server_address

\* _evaluate_client_expectations: an expectation on a client without a marked
\* monitor is unmatched; otherwise wait_for decides
client_expectation_outcomes(expectations) ==
    {m \in BoolSeqs(Len(expectations)) :
        \A k \in 1..Len(expectations) : expectations[k] \notin marked => ~m[k]}

\* the rest of run() after the clients: server-log expectations, client-log
\* expectations, the server-log export, and the TestRunResult
run_evaluate ==
    /\ pc = "evaluate"
    /\ IF evaluate_raises
          THEN /\ exc' = "ValueError"
               /\ pc' = Unwind
               /\ UNCHANGED last_result
          ELSE \E sm \in BoolSeqs(runs[ctx].expect_server_logs),
                  cm \in client_expectation_outcomes(runs[ctx].client_log_expectations),
                  written \in BOOLEAN :
                  IF ~server_address /\ runs[ctx].server_log_export /\ ~written
                     THEN /\ exc' = "OSError"
                          /\ pc' = "stop"
                          /\ UNCHANGED last_result
                     ELSE /\ written
                          /\ last_result' =
                                [ctx |-> ctx, iteration |-> iteration,
                                 client_results |-> client_results,
                                 log_expectations |-> sm,
                                 client_log_expectations |-> cm]
                          /\ exc' = "none"
                          /\ pc' = IF server_address THEN "return" ELSE "stop"
    /\ UNCHANGED <<monVars, resVars, extVars, srvVars, logVars, playVars, runs, slept, server_marked, server_address, has_controller, ctx, iteration, selected, ci,
                   log, client_results, results, connected, connects, disconnects,
                   sent, transport, outcome, marked, process, started, stopped>>

Next ==
    \/ run_suite_call
    \/ run_suite_append
    \/ run_suite_return
    \/ run_begin
    \/ start
    \/ process_exits
    \/ wait_until_ready
    \/ running_exit
    \/ run_on_clients_connect
    \/ run_on_clients_execute
    \/ run_on_clients_disconnect
    \/ run_evaluate

Spec == Init /\ [][Next]_vars

SpecRun == InitRun /\ [][Next]_vars

(***************************************************************************)
(* The success verdict of a TestRunResult.  TestRunResult in tester.py has *)
(* no such verdict (only logs_satisfied and successful_clients); its       *)
(* callers and tests use is_successful() and failures, modelled here.      *)
(***************************************************************************)
\* the per-client run failures: one of category "client" for every client
\* whose execute_script returned None
run_failures(crs) ==
    SelectSeq([k \in 1..Len(crs) |->
                  [category |-> IF crs[k].log = "null" THEN "client" ELSE "ok",
                   subject |-> crs[k].client_name]],
              LAMBDA f : f.category = "client")

all_true(bs) == \A k \in 1..Len(bs) : bs[k]

\* a variant that looks at the server-log expectations only
is_successful_LogsOnly(log_exp, client_log_exp, assertions, failures) ==
    all_true(log_exp)

is_successful(log_exp, client_log_exp, assertions, failures) ==
    /\ all_true(log_exp)
    /\ all_true(client_log_exp)
    /\ all_true(assertions)
    /\ failures = << >>

\* the verdict for a result of run(), which evaluates no assertions
Successful(r) ==
    is_successful(r.log_expectations, r.client_log_expectations, << >>,
                  run_failures(r.client_results))

(***************************************************************************)
(* Claims about run_suite and run                                          *)
(***************************************************************************)
\* the results of run_suite that belong to iteration i of context c, in order
Attempts(c, i) == SelectSeq(results, LAMBDA r : r.ctx = c /\ r.iteration = i)

\* C1: in the list returned by run_suite, the attempts of an iteration follow
\* the retry loop: attempt k is followed by attempt k+1 if and only if attempt
\* k was unsuccessful and k <= max_retries.
C1_RetryLoop ==
    pc = "done" =>
        \A c \in 1..Len(runs) : \A i \in 0..MaxIterations :
            LET A == Attempts(c, i) IN
            \A k \in 1..Len(A) :
                (k < Len(A)) <=> (~Successful(A[k]) /\ k <= runs[c].max_retries)

\* C2: when a context with fail_fast ends an iteration with an unsuccessful
\* final attempt, run_suite stops: that result is the last one returned.
C2_FailFast ==
    pc = "done" =>
        \A j \in 1..Len(results) :
            ( /\ runs[results[j].ctx].fail_fast
              /\ ~Successful(results[j])
              /\ \A m \in (j+1)..Len(results) :
                    ~(results[m].ctx = results[j].ctx
                      /\ results[m].iteration = results[j].iteration) )
            => j = Len(results)

\* C4: an execute_script that raises does not propagate out of run(), and a
\* run that returns has executed the script on every selected client.
C4_ClientFailureIsolated ==
    /\ pc = "raised" => exc # "ClientError"
    /\ pc = "return" => \A c \in Range(selected) : outcome[c] # "none"

\* C5: clients are processed one at a time in selection order, each with
\* connect, execute_script, disconnect; every connect that returned is paired
\* with exactly one disconnect, also when execute_script raises, and no two
\* clients are connected at the same time.
C5_ClientLifecycle ==
    /\ Cardinality(connected) <= 1
    /\ \A c \in client_lookup :
          connects[c] = disconnects[c] + (IF c \in connected THEN 1 ELSE 0)
    /\ pc \in {"execute", "disconnect"} => connected = {selected[ci]}
    /\ pc \notin {"execute", "disconnect"} => connected = {}
    /\ \A k \in 1..Len(client_results) : client_results[k].client_name = selected[k]
    /\ pc \in {"connect", "execute", "disconnect"} => Len(client_results) = ci - 1
    /\ \A c \in client_lookup : outcome[c] # "none" => connects[c] >= 1

\* an execute_script raised, the client was disconnected, run() raised
C5_Witness ==
    /\ pc = "raised"
    /\ exc = "ClientError"
    /\ \E c \in client_lookup : outcome[c] = "raise" /\ disconnects[c] = connects[c]

\* C6: when run() owns the server, every way out of run() after a successful
\* start() has executed stop(), and the controller holds no process.
C6_ServerReleased ==
    pc \in {"return", "raised", "suite", "done"} =>
        (process = "none" /\ stopped = started)

\* the server process exited during readiness polling and was released
C6_Witness ==
    /\ pc = "raised"
    /\ exc = "RuntimeError"
    /\ started = 1
    /\ stopped = 1

\* C11: once every selected client has been run, run() does not raise for want
\* of a log monitor, and the TestRunResult it returns holds one result for
\* every server-log expectation and one for every client-log expectation of
\* the context, with an explicit server address and without.
C11_ExpectationsAreResults ==
    /\ (pc = "raised" /\ Len(selected) > 0 /\ Len(client_results) = Len(selected))
          => exc # "ValueError"
    /\ pc = "return" =>
          /\ Len(last_result.log_expectations) = runs[ctx].expect_server_logs
          /\ Len(last_result.client_log_expectations)
                = Len(runs[ctx].client_log_expectations)

\* C13: while run() works on the clients a context names, no client outside
\* the selection is connected and the transport of none receives a payload;
\* the transport of the client whose execute_script returns a log receives
\* the payloads of the script's commands, in the order of the commands.
C13_ClientFiltering ==
    [][ /\ \A c \in client_lookup :
              (pc \in {"run", "connect", "execute", "disconnect", "evaluate"}
                 /\ runs[ctx].client_names # << >>
                 /\ c \notin Range(runs[ctx].client_names))
              => /\ transport'[c] = transport[c]
                 /\ connects'[c] = connects[c]
                 /\ c \notin connected'
        /\ (pc = "execute" /\ outcome'[selected[ci]] = "log")
              => transport'[selected[ci]]
                   = transport[selected[ci]] \o << <<"/one">>, <<"/two">> >> ]_vars

\* a suite of two contexts, the second naming "beta" only: "alpha" holds the
\* payloads of the first context, "beta" those of both
C13_Witness ==
    /\ pc = "done"
    /\ Len(runs) = 2
    /\ runs[1].client_names = << >>
    /\ runs[2].client_names = <<"beta">>
    /\ transport["alpha"] = << <<"/one">>, <<"/two">> >>
    /\ transport["beta"] = << <<"/one">>, <<"/two">>, <<"/one">>, <<"/two">> >>
    /\ connects["alpha"] = 1

\* C14: a run() whose context names a client that is not registered raises
\* KeyError at once: no monitor is marked, no client is connected or
\* disconnected, no payload is sent, the server is not started, and every
\* transport holds what it held before.
C14_UnknownClient ==
    [][ ( /\ pc = "run"
          /\ \E k \in 1..Len(runs[ctx].client_names) :
                runs[ctx].client_names[k] \notin {"alpha", "beta"} )
        => /\ pc' = "raised"
           /\ exc' = "KeyError"
           /\ UNCHANGED <<connected, connects, disconnects, sent, transport, marked,
                          process, started, stopped>> ]_vars

\* the second context of a suite names "ghost": run_suite raises, and "beta"
\* still holds what the first context sent
C14_Witness ==
    /\ pc = "raised"
    /\ exc = "KeyError"
    /\ ctx = 2
    /\ runs[2].client_names = <<"ghost">>
    /\ transport["beta"] = << <<"/one">>, <<"/two">> >>
    /\ connects["beta"] = 1
    /\ connected = {}

\* C15: run_suite never calls run() for a context with enabled = false, and
\* no TestRunResult in its list belongs to such a context.
C15_DisabledSkipped ==
    /\ pc \notin {"suite", "done"} => runs[ctx].enabled
    /\ \A j \in 1..Len(results) : runs[results[j].ctx].enabled

\* the payloads a result's clients sent in the run: those of the script for
\* a client that returned a log, of the named client or of all of them
RECURSIVE PayloadsSent(_, _)
PayloadsSent(crs, client_name) ==
    IF crs = << >> THEN 0
    ELSE (IF Head(crs).log # "null" /\ client_name \in {"", Head(crs).client_name}
             THEN Len(script_payloads(suite_script)) ELSE 0)
         + PayloadsSent(Tail(crs), client_name)

\* C26: a result whose run sent a number of payloads outside [min, max] of a
\* command_count assertion of its context is not successful.
C26_CommandCountAssertion ==
    pc = "done" =>
        \A j \in 1..Len(results) :
            LET rules == runs[results[j].ctx].assertions IN
            \A k \in 1..Len(rules) :
                LET sent_count == PayloadsSent(results[j].client_results,
                                               rules[k].client_name)
                IN (sent_count < rules[k].min_value \/ sent_count > rules[k].max_value)
                      => ~Successful(results[j])

\* the errors of the server controller: executable missing, process exited
\* before readiness, readiness timeout
InfrastructureErrors == {"FileNotFoundError", "RuntimeError", "TimeoutError"}

\* C16: once an attempt has raised an infrastructure error, the error stays
\* in flight until it leaves run_suite: no step starts the server again,
\* connects a client, sends a payload, adds a result or moves to another
\* iteration or context, whatever max_retries is; and when the error has left
\* run_suite the controller holds no process and every start() has its stop().
C16_InfrastructureErrorsPropagate ==
    [][ /\ exc \in InfrastructureErrors
           => /\ exc' = exc
              /\ pc' \in {"stop", "raised"}
              /\ UNCHANGED <<ctx, iteration, results, started, connects, transport>>
        /\ (pc' = "raised" /\ exc' \in InfrastructureErrors)
           => (process' = "none" /\ stopped' = started') ]_vars

\* the readiness timeout of the first of two contexts, one that allows
\* retries: run_suite has raised, the server is released, nothing was retried
C16_Witness ==
    /\ pc = "raised"
    /\ exc = "TimeoutError"
    /\ Len(runs) = 2
    /\ ctx = 1
    /\ runs[1].max_retries = MaxRetries
    /\ started = 1
    /\ stopped = 1
    /\ results = << >>

(***************************************************************************)
(* ServerLogMonitor and ClientLogMonitor (the two classes have the same    *)
(* _read, mark, wait_for and collect_since_mark).  The file is text over a *)
(* two-letter alphabet; other processes create it and append to it.        *)
(***************************************************************************)
Alphabet == {"a", "b"}

Phrases == {<< >>, <<"a">>, <<"a", "b">>}

\* Python's content[off:]
Slice(text, off) == SubSeq(text, off + 1, Len(text))

\* Python's `phrase in segment`
Contains(phrase, segment) ==
    \E i \in 0..(Len(segment) - Len(phrase)) :
        SubSeq(segment, i + 1, i + Len(phrase)) = phrase

\* the number of non-overlapping occurrences of phrase in segment, from the left
RECURSIVE CountFrom(_, _, _)
CountFrom(phrase, segment, i) ==
    IF i + Len(phrase) > Len(segment) THEN 0
    ELSE IF SubSeq(segment, i + 1, i + Len(phrase)) = phrase
         THEN 1 + CountFrom(phrase, segment, i + Max(1, Len(phrase)))
         ELSE CountFrom(phrase, segment, i + 1)

Count(phrase, segment) == CountFrom(phrase, segment, 0)

\* the operations ended since the file last grew, the last three of them
Push(h, op) == LET x == Append(h, op) IN IF Len(x) > 3 THEN Tail(x) ELSE x

\* a _read without the exists() test raises on a missing file
read_raises_NoExistsCheck == ~exists

\* _read tests log_path.exists() before read_text, so it does not raise
read_raises == FALSE

\* _read: "" for a missing file, else the whole text
read == IF exists THEN content ELSE << >>

\* a mark() that rewinds to the start of the file
mark_Rewind ==
    /\ mpc = "idle"
    /\ offset' = 0
    /\ mark_offset' = 0
    /\ m_exc' = "none"
    /\ last_op' = "mark"
    /\ hist' = Push(hist, "mark")
    /\ UNCHANGED <<orchVars, resVars, extVars, srvVars, logVars, playVars, exists, content, mpc, w_phrase, w_occurrences,
                   w_polls, w_count, w_absent, ret_bool, ret_text, c_full>>

\* a mark() that records the old read cursor as the mark
mark_Stale ==
    /\ mpc = "idle"
    /\ offset' = Len(read)
    /\ mark_offset' = offset
    /\ m_exc' = "none"
    /\ last_op' = "mark"
    /\ hist' = Push(hist, "mark")
    /\ UNCHANGED <<orchVars, resVars, extVars, srvVars, logVars, playVars, exists, content, mpc, w_phrase, w_occurrences,
                   w_polls, w_count, w_absent, ret_bool, ret_text, c_full>>

\* mark(): both offsets become the length of the text read
mark_op ==
    /\ mpc = "idle"
    /\ IF read_raises
          THEN /\ m_exc' = "FileNotFoundError"
               /\ UNCHANGED <<offset, mark_offset>>
          ELSE /\ offset' = Len(read)
               /\ mark_offset' = Len(read)
               /\ m_exc' = "none"
    /\ last_op' = "mark"
    /\ hist' = Push(hist, "mark")
    /\ UNCHANGED <<exists, content, mpc, w_phrase, w_occurrences,
                   w_polls, w_count, w_absent, ret_bool, ret_text, c_full>>

\* mark() called on the monitor alone
mark ==
    /\ mark_op
    /\ UNCHANGED <<orchVars, resVars, extVars, srvVars, logVars, playVars>>

\* wait_for(phrase, timeout, poll_interval): the deadline is set and the loop
\* entered; wait_for has no occurrences parameter, the number its caller asks
\* for has no effect
wait_for_call_op(phrase, occurrences) ==
    /\ mpc = "idle"
    /\ mpc' = "wait"
    /\ w_phrase' = phrase
    /\ w_occurrences' = occurrences
    /\ w_polls' = 0
    /\ w_count' = 0
    /\ w_absent' = TRUE
    /\ UNCHANGED <<exists, content, offset, mark_offset, last_op,
                   hist, ret_bool, ret_text, c_full, m_exc>>

\* wait_for called on the monitor alone
wait_for_call(phrase, occurrences) ==
    /\ wait_for_call_op(phrase, occurrences)
    /\ UNCHANGED <<orchVars, resVars, extVars, srvVars, logVars, playVars>>

\* a poll that moves the read cursor only when the phrase matched
wait_for_poll_op_CursorOnMatch ==
    /\ mpc = "wait"
    /\ w_polls < MaxPolls
    /\ LET segment == Slice(read, offset) IN
       /\ w_count' = w_count + Count(w_phrase, segment)
       /\ w_absent' = (w_absent /\ ~exists)
       /\ m_exc' = "none"
       /\ IF Contains(w_phrase, segment)
             THEN /\ offset' = Len(read)
                  /\ ret_bool' = TRUE
                  /\ mpc' = "idle"
                  /\ last_op' = "wait_for"
                  /\ hist' = Push(hist, "wait_for")
                  /\ UNCHANGED w_polls
             ELSE /\ w_polls' = w_polls + 1
                  /\ UNCHANGED <<offset, ret_bool, mpc, last_op, hist>>
    /\ UNCHANGED <<exists, content, mark_offset, w_phrase,
                   w_occurrences, ret_text, c_full>>

\* a poll that looks at the text after the mark, the text earlier polls have
\* read included
wait_for_poll_op_FromMark ==
    /\ mpc = "wait"
    /\ w_polls < MaxPolls
    /\ LET segment == Slice(read, mark_offset) IN
       /\ offset' = Len(read)
       /\ w_count' = w_count + Count(w_phrase, segment)
       /\ w_absent' = (w_absent /\ ~exists)
       /\ m_exc' = "none"
       /\ IF Contains(w_phrase, segment)
             THEN /\ ret_bool' = TRUE
                  /\ mpc' = "idle"
                  /\ last_op' = "wait_for"
                  /\ hist' = Push(hist, "wait_for")
                  /\ UNCHANGED w_polls
             ELSE /\ w_polls' = w_polls + 1
                  /\ UNCHANGED <<ret_bool, mpc, last_op, hist>>
    /\ UNCHANGED <<exists, content, mark_offset, w_phrase,
                   w_occurrences, ret_text, c_full>>

\* a poll that looks at the whole file
wait_for_poll_op_WholeFile ==
    /\ mpc = "wait"
    /\ w_polls < MaxPolls
    /\ LET segment == read IN
       /\ offset' = Len(read)
       /\ w_count' = w_count + Count(w_phrase, segment)
       /\ w_absent' = (w_absent /\ ~exists)
       /\ m_exc' = "none"
       /\ IF Contains(w_phrase, segment)
             THEN /\ ret_bool' = TRUE
                  /\ mpc' = "idle"
                  /\ last_op' = "wait_for"
                  /\ hist' = Push(hist, "wait_for")
                  /\ UNCHANGED w_polls
             ELSE /\ w_polls' = w_polls + 1
                  /\ UNCHANGED <<ret_bool, mpc, last_op, hist>>
    /\ UNCHANGED <<exists, content, mark_offset, w_phrase,
                   w_occurrences, ret_text, c_full>>

\* one turn of the loop before the deadline: read, look at content[_offset:],
\* move the read cursor to the end, return True on a match, else sleep
wait_for_poll_op ==
    /\ mpc = "wait"
    /\ w_polls < MaxPolls
    /\ IF read_raises
          THEN /\ m_exc' = "FileNotFoundError"
               /\ mpc' = "idle"
               /\ last_op' = "wait_for"
               /\ hist' = Push(hist, "wait_for")
               /\ UNCHANGED <<offset, w_polls, w_count, w_absent, ret_bool>>
          ELSE LET segment == Slice(read, offset) IN
               /\ offset' = Len(read)
               /\ w_count' = w_count + Count(w_phrase, segment)
               /\ w_absent' = (w_absent /\ ~exists)
               /\ m_exc' = "none"
               /\ IF Contains(w_phrase, segment)
                     THEN /\ ret_bool' = TRUE
                          /\ mpc' = "idle"
                          /\ last_op' = "wait_for"
                          /\ hist' = Push(hist, "wait_for")
                          /\ UNCHANGED w_polls
                     ELSE /\ w_polls' = w_polls + 1
                          /\ UNCHANGED <<ret_bool, mpc, last_op, hist>>
    /\ UNCHANGED <<exists, content, mark_offset, w_phrase,
                   w_occurrences, ret_text, c_full>>

\* a poll of a wait_for called on the monitor alone
wait_for_poll ==
    /\ wait_for_poll_op
    /\ UNCHANGED <<orchVars, resVars, extVars, srvVars, logVars, playVars>>

\* the loop condition time.time() < deadline fails: return False
wait_for_timeout_op ==
    /\ mpc = "wait"
    /\ ret_bool' = FALSE
    /\ mpc' = "idle"
    /\ m_exc' = "none"
    /\ last_op' = "wait_for"
    /\ hist' = Push(hist, "wait_for")
    /\ UNCHANGED <<exists, content, offset, mark_offset, w_phrase,
                   w_occurrences, w_polls, w_count, w_absent, ret_text, c_full>>

\* the deadline of a wait_for called on the monitor alone
wait_for_timeout ==
    /\ wait_for_timeout_op
    /\ UNCHANGED <<orchVars, resVars, extVars, srvVars, logVars, playVars>>

\* a collect_since_mark that returns the text after the read cursor
collect_since_mark_FromCursor(include_full) ==
    /\ mpc = "idle"
    /\ ret_text' = IF include_full THEN read ELSE Slice(read, offset)
    /\ mark_offset' = Len(read)
    /\ offset' = Len(read)
    /\ m_exc' = "none"
    /\ c_full' = include_full
    /\ last_op' = "collect"
    /\ hist' = Push(hist, "collect")
    /\ UNCHANGED <<orchVars, resVars, extVars, srvVars, logVars, playVars, exists, content, mpc, w_phrase, w_occurrences,
                   w_polls, w_count, w_absent, ret_bool>>

\* a collect_since_mark that moves the mark and leaves the read cursor
collect_since_mark_KeepsCursor(include_full) ==
    /\ mpc = "idle"
    /\ ret_text' = IF include_full THEN read ELSE Slice(read, mark_offset)
    /\ mark_offset' = Len(read)
    /\ m_exc' = "none"
    /\ c_full' = include_full
    /\ last_op' = "collect"
    /\ hist' = Push(hist, "collect")
    /\ UNCHANGED <<orchVars, resVars, extVars, srvVars, logVars, playVars, exists, content, offset, mpc, w_phrase, w_occurrences,
                   w_polls, w_count, w_absent, ret_bool>>

\* collect_since_mark(include_full): the whole text or the text after the mark;
\* then both offsets become the length of the text read
collect_since_mark(include_full) ==
    /\ mpc = "idle"
    /\ IF read_raises
          THEN /\ m_exc' = "FileNotFoundError"
               /\ UNCHANGED <<offset, mark_offset, ret_text>>
          ELSE /\ ret_text' = IF include_full THEN read ELSE Slice(read, mark_offset)
               /\ mark_offset' = Len(read)
               /\ offset' = Len(read)
               /\ m_exc' = "none"
    /\ c_full' = include_full
    /\ last_op' = "collect"
    /\ hist' = Push(hist, "collect")
    /\ UNCHANGED <<orchVars, resVars, extVars, srvVars, logVars, playVars, exists, content, mpc, w_phrase, w_occurrences,
                   w_polls, w_count, w_absent, ret_bool>>

\* another process creates the (empty) file
file_create ==
    /\ ~exists
    /\ exists' = TRUE
    /\ UNCHANGED <<orchVars, resVars, extVars, srvVars, logVars, playVars, content, offset, mark_offset, mpc, w_phrase,
                   w_occurrences, w_polls, w_count, w_absent, last_op, hist, ret_bool,
                   ret_text, c_full, m_exc>>

\* another process appends a character to the file
file_append(ch) ==
    /\ exists
    /\ Len(content) < MaxLen
    /\ content' = Append(content, ch)
    /\ hist' = << >>
    /\ UNCHANGED <<orchVars, resVars, extVars, srvVars, logVars, playVars, exists, offset, mark_offset, mpc, w_phrase,
                   w_occurrences, w_polls, w_count, w_absent, last_op, ret_bool,
                   ret_text, c_full, m_exc>>

wait_for_begin == \E p \in Phrases, n \in 1..MaxOccurrences : wait_for_call(p, n)

collect == \E f \in BOOLEAN : collect_since_mark(f)

file_grows == \E ch \in Alphabet : file_append(ch)

NextMon ==
    \/ mark
    \/ wait_for_begin
    \/ wait_for_poll
    \/ wait_for_timeout
    \/ collect
    \/ file_create
    \/ file_grows

InitMon ==
    /\ runs = << >>
    /\ server_address = TRUE
    /\ has_controller = TRUE
    /\ InitOrch
    /\ InitMonitor
    /\ NoVerdict
    /\ IdleController
    /\ IdleExt
    /\ IdleLogRun
    /\ IdleRunner

SpecMon == InitMon /\ [][NextMon]_vars

(***************************************************************************)
(* Claims about the log monitors                                           *)
(***************************************************************************)
\* C7: a wait_for that was asked for n occurrences of a (non-empty) phrase
\* returns true exactly when the slices it read held at least n matches.
C7_OccurrenceCounting ==
    (last_op = "wait_for" /\ mpc = "idle" /\ w_phrase # << >>)
        => (ret_bool <=> w_count >= w_occurrences)

\* C8: on a file that only grows, no step of mark, wait_for or
\* collect_since_mark decreases the read cursor or the mark offset.
C8_OffsetsNeverRewind ==
    [][offset' >= offset /\ mark_offset' >= mark_offset]_vars

\* both offsets have moved, the read cursor beyond the mark
C8_Witness == mark_offset > 0 /\ offset > mark_offset

\* C9: a mark() that follows a mark() with no file growth in between changes
\* nothing, and a collect_since_mark(False) after the two returns "".
C9_MarkIdempotent ==
    [][ /\ (mark /\ hist # << >> /\ hist[Len(hist)] = "mark")
            => (offset' = offset /\ mark_offset' = mark_offset)
        /\ ( /\ collect_since_mark(FALSE)
             /\ Len(hist) >= 2
             /\ hist[Len(hist)] = "mark"
             /\ hist[Len(hist) - 1] = "mark" )
            => ret_text' = << >> ]_vars

\* two marks and a collect with no growth in between, on a file with text
C9_Witness ==
    /\ hist = <<"mark", "mark", "collect">>
    /\ ret_text = << >>
    /\ Len(content) > 0
    /\ mark_offset = Len(content)

\* while the file is missing: no operation raises, mark() leaves both offsets
\* at 0, collect_since_mark returns "", and after a poll that found no file
\* the read cursor is 0, so a file created later is read from its start
MissingFileIsEmpty ==
    /\ m_exc = "none"
    /\ (last_op = "mark" /\ ~exists) => (offset = 0 /\ mark_offset = 0)
    /\ (last_op = "collect" /\ ~exists) =>
          (ret_text = << >> /\ offset = 0 /\ mark_offset = 0)
    /\ (mpc = "wait" /\ w_absent /\ w_polls >= 1) => offset = 0

\* C10 as stated: ... and a wait_for whose every poll found no file returns
\* false, whatever the phrase.
C10_MissingFile_Original ==
    /\ MissingFileIsEmpty
    /\ (last_op = "wait_for" /\ mpc = "idle" /\ w_absent) => ~ret_bool

\* C10 amended: ... and a wait_for for a non-empty phrase whose every poll
\* found no file returns false.
C10_MissingFile ==
    /\ MissingFileIsEmpty
    /\ (last_op = "wait_for" /\ mpc = "idle" /\ w_absent /\ w_phrase # << >>)
          => ~ret_bool

\* a wait_for for a non-empty phrase polled a missing file up to its deadline
C10_Witness ==
    /\ last_op = "wait_for"
    /\ mpc = "idle"
    /\ ~exists
    /\ w_absent
    /\ w_polls = MaxPolls
    /\ w_phrase # << >>
    /\ ~ret_bool

(***************************************************************************)
(* run() over one client with a log monitor: client "alpha", log           *)
(* "chatlog", an explicit server address, client-log expectations on that  *)
(* log only.  The client writes its log from the moment it is connected;   *)
(* what the log held before run() is the initial text.  The timeouts are   *)
(* positive, so every wait_for polls at least once.                        *)
(***************************************************************************)
Texts(n) == UNION {[1..k -> Alphabet] : k \in 0..n}

InitLog ==
    /\ runs = << >>
    /\ server_address = TRUE
    /\ has_controller = TRUE
    /\ InitOrch
    /\ exists \in BOOLEAN
    /\ content \in (IF exists THEN Texts(MaxLen - 1) ELSE {<< >>})
    /\ offset = 0
    /\ mark_offset = 0
    /\ mpc = "idle"
    /\ w_phrase = << >>
    /\ w_occurrences = 1
    /\ w_polls = 0
    /\ w_count = 0
    /\ w_absent = FALSE
    /\ last_op = "none"
    /\ hist = << >>
    /\ ret_bool = FALSE
    /\ ret_text = << >>
    /\ c_full = FALSE
    /\ m_exc = "none"
    /\ NoVerdict
    /\ IdleController
    /\ IdleExt
    /\ lpc = "run"
    /\ l_expect \in UNION {[1..n -> Phrases] : n \in 1..MaxExpectations}
    /\ l_index = 0
    /\ l_matched = << >>
    /\ l_before = Len(content)
    /\ l_during = Len(content)
    /\ IdleRunner

\* a run() that does not mark the client's monitors
log_run_begin_NoMark ==
    /\ lpc = "run"
    /\ lpc' = "execute"
    /\ UNCHANGED <<orchVars, monVars, resVars, extVars, srvVars, playVars, l_expect, l_index,
                   l_matched, l_before, l_during>>

\* run() up to the first connect: _select_clients, then
\* _collect_client_monitors, which calls mark() on the monitor
log_run_begin ==
    /\ lpc = "run"
    /\ mark_op
    /\ lpc' = "execute"
    /\ UNCHANGED <<orchVars, resVars, extVars, srvVars, playVars, l_expect, l_index,
                   l_matched, l_before, l_during>>

\* _run_on_clients returns: connect, execute_script and disconnect are done
log_run_on_clients ==
    /\ lpc = "execute"
    /\ lpc' = "evaluate"
    /\ l_during' = Len(content)
    /\ l_index' = 1
    /\ UNCHANGED <<orchVars, monVars, resVars, extVars, srvVars, playVars, l_expect, l_matched,
                   l_before>>

\* _evaluate_client_expectations, loop head: monitor.wait_for(phrase, ...)
log_expectation_begin ==
    /\ lpc = "evaluate"
    /\ l_index <= Len(l_expect)
    /\ wait_for_call_op(l_expect[l_index], 1)
    /\ lpc' = "waiting"
    /\ UNCHANGED <<orchVars, resVars, extVars, srvVars, playVars, l_expect, l_index,
                   l_matched, l_before, l_during>>

\* results.append(ClientLogExpectationResult(..., matched=matched))
log_append(matched) ==
    /\ l_matched' = Append(l_matched, matched)
    /\ l_index' = l_index + 1
    /\ lpc' = "evaluate"

\* a poll of that wait_for; on a match the result is appended
log_expectation_poll ==
    /\ lpc = "waiting"
    /\ wait_for_poll_op
    /\ IF mpc' = "idle"
          THEN log_append(ret_bool')
          ELSE UNCHANGED <<lpc, l_index, l_matched>>
    /\ UNCHANGED <<orchVars, resVars, extVars, srvVars, playVars, l_expect, l_before, l_during>>

\* the deadline of that wait_for: matched = False is appended
log_expectation_timeout ==
    /\ lpc = "waiting"
    /\ w_polls >= 1
    /\ wait_for_timeout_op
    /\ log_append(ret_bool')
    /\ UNCHANGED <<orchVars, resVars, extVars, srvVars, playVars, l_expect, l_before, l_during>>

\* run() returns the TestRunResult
log_run_return ==
    /\ lpc = "evaluate"
    /\ l_index > Len(l_expect)
    /\ lpc' = "return"
    /\ UNCHANGED <<orchVars, monVars, resVars, extVars, srvVars, playVars, l_expect, l_index,
                   l_matched, l_before, l_during>>

\* the connected client creates its log or appends to it
log_client_writes ==
    /\ lpc \in {"execute", "evaluate", "waiting"}
    /\ (file_create \/ file_grows)

NextLog ==
    \/ log_run_begin
    \/ log_run_on_clients
    \/ log_expectation_begin
    \/ log_expectation_poll
    \/ log_expectation_timeout
    \/ log_run_return
    \/ log_client_writes

SpecLog == InitLog /\ [][NextLog]_vars

\* the text appended to the log between the connect and the return of
\* _run_on_clients
WrittenDuringExecution == SubSeq(content, l_before + 1, l_during)

\* from the first connect on, the monitor's mark is where the log ended when
\* run() was called; an expectation that matched has its phrase in the text
\* appended since run() was called
MarkedBeforeExecution ==
    /\ lpc # "run" => (mark_offset = l_before /\ offset >= l_before)
    /\ \A k \in 1..Len(l_matched) :
          l_matched[k] => Contains(l_expect[k], Slice(content, l_before))

\* C12 as stated: ... and every expectation whose phrase was appended while
\* the script executed is matched.
C12_MarkedBeforeExecution_Original ==
    /\ MarkedBeforeExecution
    /\ \A k \in 1..Len(l_matched) :
          Contains(l_expect[k], WrittenDuringExecution) => l_matched[k]

\* C12 amended: ... and the first expectation evaluated on the monitor is
\* matched when its phrase was appended while the script executed.
C12_MarkedBeforeExecution ==
    /\ MarkedBeforeExecution
    /\ (Len(l_matched) >= 1 /\ Contains(l_expect[1], WrittenDuringExecution))
          => l_matched[1]

\* the phrase was in the log before run() and was not appended again: not
\* matched; and a run where the phrase was appended during execution: matched
C12_Witness ==
    /\ lpc = "return"
    /\ l_expect = <<<<"a">>, <<"a", "b">>>>
    /\ Contains(<<"a", "b">>, SubSeq(content, 1, l_before))
    /\ ~Contains(<<"a", "b">>, Slice(content, l_before))
    /\ Contains(<<"a">>, WrittenDuringExecution)
    /\ l_matched = <<TRUE, FALSE>>

(***************************************************************************)
(* The success verdict as a pure function                                  *)
(***************************************************************************)
BoolSeqsUpTo(n) == UNION {BoolSeqs(k) : k \in 0..n}

ClientResultSeqs ==
    UNION {[1..n -> [client_name : client_lookup, log : {"log", "null"}]] : n \in 1..2}

InitRes ==
    /\ runs = << >>
    /\ server_address = TRUE
    /\ has_controller = TRUE
    /\ InitOrch
    /\ InitMonitor
    /\ res \in [client_results : ClientResultSeqs,
                log_expectations : BoolSeqsUpTo(MaxExpectations),
                client_log_expectations : BoolSeqsUpTo(MaxExpectations),
                assertions : BoolSeqsUpTo(MaxExpectations)]
    /\ verdict = "none"
    /\ IdleController
    /\ IdleExt
    /\ IdleLogRun
    /\ IdleRunner

\* result.is_successful()
judge ==
    /\ verdict = "none"
    /\ verdict' = IF is_successful(res.log_expectations, res.client_log_expectations,
                                   res.assertions, run_failures(res.client_results))
                  THEN "successful" ELSE "failed"
    /\ UNCHANGED <<orchVars, monVars, srvVars, logVars, playVars, extVars, res>>

NextRes == judge

SpecRes == InitRes /\ [][NextRes]_vars

startup_phrase == <<"a">>

\* log_path.exists() and startup_phrase in the whole text of the log
startup_logged == exists /\ Contains(startup_phrase, content)

InitSrv ==
    /\ runs = << >>
    /\ server_address = FALSE
    /\ has_controller = TRUE
    /\ InitOrch
    /\ exists \in BOOLEAN
    /\ content \in (IF exists THEN {<< >>, startup_phrase} ELSE {<< >>})
    /\ offset = 0
    /\ mark_offset = 0
    /\ mpc = "idle"
    /\ w_phrase = << >>
    /\ w_occurrences = 1
    /\ w_polls = 0
    /\ w_count = 0
    /\ w_absent = FALSE
    /\ last_op = "none"
    /\ hist = << >>
    /\ ret_bool = FALSE
    /\ ret_text = << >>
    /\ c_full = FALSE
    /\ m_exc = "none"
    /\ NoVerdict
    /\ IdleController
    /\ IdleExt
    /\ IdleLogRun
    /\ IdleRunner

\* the variables of the orchestrator other than the controller's
suiteVars == <<runs, slept, server_marked, server_address, has_controller, pc, ctx, iteration, selected, ci,
               log, exc, client_results, last_result, results, connected, connects,
               disconnects, sent, transport, outcome, marked>>

\* start(): FileNotFoundError when the binary is missing, else the log
\* monitor is marked and the process is spawned and held (a process held
\* before is no longer held)
controller_start ==
    /\ spc = "idle"
    /\ started < MaxStarts
    /\ \E binary_exists \in BOOLEAN :
          IF binary_exists
             THEN /\ mark_op
                  /\ process' = "running"
                  /\ returncode' = "none"
                  /\ started' = started + 1
             ELSE UNCHANGED <<monVars, process, returncode, started>>
    /\ UNCHANGED <<suiteVars, resVars, extVars, logVars, playVars, stopped, spc, r_polls,
                   ready, raised_with, stops, terminates, kills, grace>>

\* the held process ends on its own with some exit code
server_exits ==
    /\ process = "running"
    /\ process' = "exited"
    /\ returncode' \in {"0", "1"}
    /\ UNCHANGED <<suiteVars, monVars, resVars, extVars, logVars, playVars, started, stopped,
                   spc, r_polls, ready, raised_with, stops,
                   terminates, kills, grace>>

\* wait_until_ready(timeout): RuntimeError when no process is held, else the
\* deadline is set and the loop entered
wait_until_ready_call ==
    /\ spc = "idle"
    /\ IF process = "none"
          THEN /\ ready' = "raised"
               /\ raised_with' = "none"
               /\ UNCHANGED <<spc, r_polls>>
          ELSE /\ spc' = "ready"
               /\ r_polls' = 0
               /\ ready' = "none"
               /\ raised_with' = "none"
    /\ UNCHANGED <<orchVars, monVars, resVars, extVars, logVars, playVars, returncode, stops, terminates, kills, grace>>

\* a wait_until_ready that looks at the log before it polls the process
wait_until_ready_poll_LogFirst ==
    /\ spc = "ready"
    /\ r_polls < MaxPolls
    /\ IF startup_logged
          THEN /\ ready' = "true"
               /\ spc' = "idle"
               /\ UNCHANGED <<r_polls, raised_with>>
          ELSE IF process = "exited"
                  THEN /\ ready' = "raised"
                       /\ raised_with' = returncode
                       /\ spc' = "idle"
                       /\ UNCHANGED r_polls
                  ELSE /\ r_polls' = r_polls + 1
                       /\ UNCHANGED <<spc, ready, raised_with>>
    /\ UNCHANGED <<orchVars, monVars, resVars, extVars, logVars, playVars, returncode, stops, terminates, kills, grace>>

\* one turn of the loop before the deadline: RuntimeError with the exit code
\* when poll() reports an exit, True when the log holds the startup phrase,
\* else sleep
wait_until_ready_poll ==
    /\ spc = "ready"
    /\ r_polls < MaxPolls
    /\ IF process = "exited"
          THEN /\ ready' = "raised"
               /\ raised_with' = returncode
               /\ spc' = "idle"
               /\ UNCHANGED r_polls
          ELSE IF startup_logged
                  THEN /\ ready' = "true"
                       /\ spc' = "idle"
                       /\ UNCHANGED <<r_polls, raised_with>>
                  ELSE /\ r_polls' = r_polls + 1
                       /\ UNCHANGED <<spc, ready, raised_with>>
    /\ UNCHANGED <<orchVars, monVars, resVars, extVars, logVars, playVars, returncode, stops, terminates, kills, grace>>

\* the loop condition time.time() < deadline fails: return False
wait_until_ready_deadline ==
    /\ spc = "ready"
    /\ ready' = "false"
    /\ spc' = "idle"
    /\ UNCHANGED <<orchVars, monVars, resVars, extVars, logVars, playVars, r_polls,
                   returncode, raised_with, stops, terminates, kills,
                   grace>>

\* a stop() that terminates the process and goes on holding it
stop_KeepsProcess ==
    /\ spc = "idle"
    /\ stops < MaxStops
    /\ stops' = stops + 1
    /\ IF process = "running"
          THEN /\ terminates' = terminates + 1
               /\ grace' = "exited"
               /\ returncode' = "0"
               /\ process' = "exited"
               /\ UNCHANGED <<kills, stopped>>
          ELSE UNCHANGED <<terminates, kills, grace, returncode, process, stopped>>
    /\ UNCHANGED <<suiteVars, monVars, resVars, extVars, logVars, playVars, started, spc,
                   r_polls, ready, raised_with>>

\* stop(): nothing when no process is held; terminate() and wait(timeout=5) for
\* a process that runs, kill() when the wait times out; the process is
\* forgotten
stop ==
    /\ spc = "idle"
    /\ stops < MaxStops
    /\ stops' = stops + 1
    /\ CASE process = "none" ->
               UNCHANGED <<terminates, kills, grace, returncode, process, stopped>>
         [] process = "exited" ->
               /\ process' = "none"
               /\ stopped' = stopped + 1
               /\ UNCHANGED <<terminates, kills, grace, returncode>>
         [] process = "running" ->
               /\ terminates' = terminates + 1
               /\ \E exited_in_time \in BOOLEAN :
                     /\ grace' = IF exited_in_time THEN "exited" ELSE "expired"
                     /\ kills' = IF exited_in_time THEN kills ELSE kills + 1
                     /\ returncode' = IF exited_in_time THEN "0" ELSE "none"
               /\ process' = "none"
               /\ stopped' = stopped + 1
    /\ UNCHANGED <<suiteVars, monVars, resVars, extVars, logVars, playVars, started, spc,
                   r_polls, ready, raised_with>>

NextSrv ==
    \/ controller_start
    \/ server_exits
    \/ file_create
    \/ file_grows
    \/ wait_until_ready_call
    \/ wait_until_ready_poll
    \/ wait_until_ready_deadline
    \/ stop

SpecSrv == InitSrv /\ [][NextSrv]_vars

(***************************************************************************)
(* Claims about the server controller                                      *)
(***************************************************************************)
\* C17: a turn of wait_until_ready's loop that finds the process exited
\* raises RuntimeError with the exit code, whatever the log holds, and never
\* sleeps; a turn that finds the process running and the startup phrase in the
\* log returns true; the call returns true only then, raises from the loop
\* only on an exit, and returns false, without an exception, at the deadline.
C17_ReadinessDetection ==
    [][ spc = "ready" =>
          /\ ready' = "true" => (process = "running" /\ startup_logged)
          /\ ready' = "raised"
                => (process = "exited" /\ returncode \in {"0", "1"}
                    /\ raised_with' = returncode)
          /\ ready' = "false" => (raised_with' = "none" /\ spc' = "idle")
          /\ r_polls' # r_polls => (process = "running" /\ ~startup_logged)
          /\ spc' = "idle" => ready' \in {"true", "false", "raised"} ]_vars

\* the exit was observed, and reported with its code, although the log held
\* the startup phrase
C17_Witness ==
    /\ spc = "idle"
    /\ ready = "raised"
    /\ raised_with = "1"
    /\ process = "exited"
    /\ startup_logged

\* C18: a stop() leaves the controller without a process; when it held none
\* the call changes nothing; on a running process it calls terminate() once,
\* and kill() once exactly when the wait of the grace timeout expired; on an
\* exited process it calls neither.
C18_StopIdempotentEscalates ==
    [][ stops' = stops + 1 =>
          /\ process' = "none"
          /\ process = "none"
                => UNCHANGED <<orchVars, monVars, resVars, extVars, logVars, playVars, spc,
                               r_polls, ready, returncode, raised_with, terminates,
                               kills, grace>>
          /\ process = "running"
                => /\ terminates' = terminates + 1
                   /\ grace' \in {"exited", "expired"}
                   /\ kills' = IF grace' = "expired" THEN kills + 1 ELSE kills
          /\ process = "exited"
                => (terminates' = terminates /\ kills' = kills) ]_vars

\* three stop() calls after one start: the first terminated and killed the
\* process, the other two did nothing
C18_Witness ==
    /\ stops = 3
    /\ started = 1
    /\ terminates = 1
    /\ kills = 1
    /\ grace = "expired"
    /\ process = "none"

(***************************************************************************)
(* tools/autorp/scenario.py: ScenarioCompiler.compile.  A string is the    *)
(* sequence of its pieces, a piece being a literal text or a {{name}}      *)
(* marker.  A value of a step is tagged: a string, a list, a map or a      *)
(* number.  A step is a record: its type, its payload (the rest of the     *)
(* map), and for a macro call the name and the named arguments, for a      *)
(* set_variables step the values and the inner steps.  The recursion of    *)
(* _compile_step and expand is the sequence frames: each frame is the      *)
(* steps one loop still has to compile, the variables of its compiler and  *)
(* the macro stack; raw and scope are the same steps before any            *)
(* substitution and the variables in force where they stand.               *)
(***************************************************************************)
\* _PLACEHOLDER_PATTERN: the markers in use and the name each one captures
Placeholders == ("{{x}}" :> "x") @@ ("{{ y }}" :> "y") @@ ("{{k}}" :> "k")

NoVariables == [k \in {} |-> << >>]

Str(text) == [t |-> "str", v |-> text]

List(items) == [t |-> "list", v |-> items]

Map(items) == [t |-> "map", v |-> items]

Num == [t |-> "num", v |-> <<"5">>]

\* _PLACEHOLDER_PATTERN.sub(_substitute, value): one pass from the left
RECURSIVE substitute(_, _)
substitute(text, variables) ==
    IF text = << >> THEN << >>
    ELSE (IF Head(text) \in DOMAIN Placeholders
             THEN Get(variables, Placeholders[Head(text)], << >>)
             ELSE <<Head(text)>>) \o substitute(Tail(text), variables)

RECURSIVE replace_placeholders(_, _)
replace_placeholders(value, variables) ==
    CASE value.t = "str" -> Str(substitute(value.v, variables))
      [] value.t = "map" ->
            Map([k \in DOMAIN value.v |-> replace_placeholders(value.v[k], variables)])
      [] value.t = "list" ->
            List([i \in DOMAIN value.v |-> replace_placeholders(value.v[i], variables)])
      [] OTHER -> value

\* dict.update on variable tables: the entries of overrides win
Merge(base, overrides) == overrides @@ base

SubstituteAll(table, variables) ==
    [k \in DOMAIN table |-> substitute(table[k], variables)]

\* the substitution applied to the value under "type", a string of one piece
substitute_type(type, variables) ==
    IF type \in DOMAIN Placeholders
    THEN LET value == Get(variables, Placeholders[type], << >>)
         IN IF value = << >> THEN "" ELSE value[1]
    ELSE type

\* _replace_placeholders applied to a whole step map, the type and the inner
\* steps included
RECURSIVE replace_step(_, _)
replace_step(step, variables) ==
    [type |-> substitute_type(step.type, variables),
     name |-> step.name,
     payload |-> replace_placeholders(step.payload, variables),
     arguments |-> SubstituteAll(step.arguments, variables),
     values |-> SubstituteAll(step.values, variables),
     steps |-> [i \in DOMAIN step.steps |-> replace_step(step.steps[i], variables)]]

Plain(type, payload) ==
    [type |-> type, name |-> "", payload |-> Map(payload), arguments |-> NoVariables,
     values |-> NoVariables, steps |-> << >>]

\* a step given as a bare string (kept under "value" until it is normalised)
Bare(text) ==
    [type |-> "str", name |-> "", payload |-> Map("value" :> Str(text)),
     arguments |-> NoVariables, values |-> NoVariables, steps |-> << >>]

Call(name, arguments) ==
    [type |-> "macro", name |-> name, payload |-> Map(NoVariables),
     arguments |-> arguments, values |-> NoVariables, steps |-> << >>]

SetVariables(values, inner_steps) ==
    [type |-> "set_variables", name |-> "", payload |-> Map(NoVariables),
     arguments |-> NoVariables, values |-> values, steps |-> inner_steps]

\* _normalise_step: a bare string is the command of that value
normalise_step(step) ==
    IF step.type = "str" THEN [step EXCEPT !.type = "command"] ELSE step

BotScriptMacro(name, body, defaults) ==
    [name |-> name, steps |-> body, defaults |-> defaults]

\* argument_mapping for named arguments: the defaults, then the arguments
argument_mapping(macro, arguments) == Merge(macro.defaults, arguments)

\* `self.name in stack` looking at the innermost call only
in_stack_TopOnly(name, stack) == stack # << >> /\ stack[Len(stack)] = name

\* expand: self.name in stack
in_stack(name, stack) == \E i \in 1..Len(stack) : stack[i] = name

Chat(text) == Plain("chat", "message" :> Str(text))

Nested ==
    Plain("screenshot",
          ("name" :> Str(<<"shot-", "{{x}}">>))
          @@ ("meta" :> Map(("tags" :> List(<<Str(<<"{{ y }}">>), Num>>))
                            @@ ("count" :> Num))))

SayX == Chat(<<"say ", "{{x}}">>)

\* the steps a scenario is made of
TopSteps ==
    { SayX,
      Nested,
      Bare(<<"status ", "{{ y }}">>),
      Call("a", NoVariables),
      Call("a", "x" :> <<"arg">>),
      Call("b", NoVariables),
      Call("ghost", NoVariables),
      SetVariables("x" :> <<"inner">>, <<SayX>>),
      SetVariables("y" :> <<"scoped">>, <<Call("a", NoVariables)>>),
      [Call("a", NoVariables) EXCEPT !.type = "{{k}}"] }

\* the macro tables: none, a chain, a macro calling itself, two macros
\* calling each other through a set_variables block, a macro whose body is a
\* set_variables block, a macro with defaults called with a marker
MacroTables ==
    { NoVariables,
      ("a" :> BotScriptMacro("a", <<SayX, Bare(<<"from a">>)>>, NoVariables))
        @@ ("b" :> BotScriptMacro("b", <<Call("a", "x" :> <<"{{ y }}">>)>>, NoVariables)),
      ("a" :> BotScriptMacro("a", <<SayX, Call("a", NoVariables)>>, NoVariables)),
      ("a" :> BotScriptMacro("a", <<SayX, Call("b", NoVariables)>>, NoVariables))
        @@ ("b" :> BotScriptMacro("b",
                      <<SetVariables("y" :> <<"loop">>, <<Call("a", NoVariables)>>)>>,
                      NoVariables)),
      ("a" :> BotScriptMacro("a", <<SetVariables("x" :> <<"inner">>, <<SayX>>)>>,
                             NoVariables)),
      ("a" :> BotScriptMacro("a", <<Nested>>, "x" :> <<"default">>))
        @@ ("b" :> BotScriptMacro("b", <<Bare(<<"from b">>), Call("a", NoVariables)>>,
                                  "y" :> <<"b-default">>)) }

VariableTables ==
    { NoVariables,
      "x" :> <<"outer">>,
      ("x" :> <<"outer">>) @@ ("y" :> <<"why">>),
      "k" :> <<"macro">> }

Frame(todo, raw, variables, scope, stack) ==
    [steps |-> todo, raw |-> raw, variables |-> variables, scope |-> scope,
     stack |-> stack]

InitScn ==
    /\ runs = << >>
    /\ server_address = TRUE
    /\ has_controller = TRUE
    /\ InitOrch
    /\ InitMonitor
    /\ NoVerdict
    /\ IdleController
    /\ IdleLogRun
    /\ IdleRunner
    /\ IdleJson
    /\ IdleSummary
    /\ IdleRegistry
    /\ IdleWine
    /\ macros \in MacroTables
    /\ steps \in UNION {[1..n -> TopSteps] : n \in 0..MaxSteps}
    /\ \E variables \in VariableTables :
          frames = <<Frame(steps, steps, variables, variables, << >>)>>
    /\ compiled = << >>
    /\ expected = << >>
    /\ cpc = "compile"
    /\ c_exc = "none"
    /\ compile_result = << >>

\* the innermost loop and its next step
top == frames[Len(frames)]

\* the frames once the innermost loop has taken its next step
Advance ==
    [frames EXCEPT ![Len(frames)] =
        [@ EXCEPT !.steps = Tail(@), !.raw = Tail(@)]]

\* _compile_step on a step that is neither a macro call nor a set_variables
\* block: substituted with self.variables, normalised, one compiled entry
compile_step_plain ==
    /\ cpc = "compile"
    /\ top.steps # << >>
    /\ Head(top.steps).type \notin {"macro", "use_macro", "set_variables", "with_variables"}
    /\ compiled' = Append(compiled,
                     normalise_step(replace_step(normalise_step(Head(top.steps)),
                                                 top.variables)))
    /\ expected' = Append(expected,
                     normalise_step(replace_step(normalise_step(Head(top.raw)), top.scope)))
    /\ frames' = Advance
    /\ UNCHANGED <<notScn, macros, steps, cpc, c_exc, compile_result>>

\* _compile_step on a macro call and BotScriptMacro.expand: KeyError for an
\* unknown name, ValueError for a name on the stack, else the loop over the
\* body, every step substituted with the call context, compiled by the same
\* compiler under the longer stack
compile_step_macro ==
    /\ cpc = "compile"
    /\ top.steps # << >>
    /\ Head(top.steps).type \in {"macro", "use_macro"}
    /\ LET data == Head(top.steps)
           name == data.name
       IN IF name \notin DOMAIN macros
             THEN /\ cpc' = "raised"
                  /\ c_exc' = "KeyError"
                  /\ UNCHANGED frames
          ELSE IF in_stack(macros[name].name, top.stack)
             THEN /\ cpc' = "raised"
                  /\ c_exc' = "ValueError"
                  /\ UNCHANGED frames
          ELSE IF Len(frames) >= MaxDepth
             THEN /\ cpc' = "raised"
                  /\ c_exc' = "RecursionError"
                  /\ UNCHANGED frames
          ELSE LET macro == macros[name]
                   call_context ==
                       Merge(top.variables, argument_mapping(macro, data.arguments))
                   scope ==
                       Merge(top.scope,
                             argument_mapping(macro,
                                 SubstituteAll(Head(top.raw).arguments, top.scope)))
               IN /\ frames' = Append(Advance,
                                  Frame([i \in DOMAIN macro.steps |->
                                            replace_step(macro.steps[i], call_context)],
                                        macro.steps, top.variables, scope,
                                        Append(top.stack, macro.name)))
                  /\ UNCHANGED <<cpc, c_exc>>
    /\ UNCHANGED <<notScn, macros, steps, compiled, expected, compile_result>>

\* _compile_step on a set_variables block: the loop over the inner steps with
\* a compiler whose variables are self.variables updated with the overrides
compile_step_set_variables ==
    /\ cpc = "compile"
    /\ top.steps # << >>
    /\ Head(top.steps).type \in {"set_variables", "with_variables"}
    /\ IF Len(frames) >= MaxDepth
          THEN /\ cpc' = "raised"
               /\ c_exc' = "RecursionError"
               /\ UNCHANGED frames
          ELSE /\ frames' = Append(Advance,
                               Frame(Head(top.steps).steps, Head(top.raw).steps,
                                     Merge(top.variables, Head(top.steps).values),
                                     Merge(top.scope,
                                           SubstituteAll(Head(top.raw).values, top.scope)),
                                     top.stack))
               /\ UNCHANGED <<cpc, c_exc>>
    /\ UNCHANGED <<notScn, macros, steps, compiled, expected, compile_result>>

\* the loop of expand or of a set_variables block is over: back to the caller
compile_step_return ==
    /\ cpc = "compile"
    /\ Len(frames) > 1
    /\ top.steps = << >>
    /\ frames' = SubSeq(frames, 1, Len(frames) - 1)
    /\ UNCHANGED <<notScn, macros, steps, compiled, expected, cpc, c_exc,
                   compile_result>>

\* the loop of compile() is over: return compiled
compile_return ==
    /\ cpc = "compile"
    /\ Len(frames) = 1
    /\ top.steps = << >>
    /\ cpc' = "returned"
    /\ compile_result' = <<compiled>>
    /\ UNCHANGED <<notScn, macros, steps, frames, compiled, expected, c_exc>>

NextScn ==
    \/ compile_step_plain
    \/ compile_step_macro
    \/ compile_step_set_variables
    \/ compile_step_return
    \/ compile_return

SpecScn == InitScn /\ [][NextScn]_vars

\* one thread runs compile(): it takes its next step whenever it has one
SpecScnLive == SpecScn /\ WF_vars(NextScn)

(***************************************************************************)
(* Claims about the scenario compiler                                      *)
(***************************************************************************)
\* the macro names a step list invokes, inside set_variables blocks too
RECURSIVE Calls(_)
Calls(todo) ==
    UNION { IF todo[i].type \in {"macro", "use_macro"} THEN {todo[i].name}
            ELSE Calls(todo[i].steps) : i \in DOMAIN todo }

\* the names invoked by the bodies of the known macros among names
CalledBy(names) ==
    UNION { Calls(macros[m].steps) : m \in names \cap DOMAIN macros }

\* the names invoked from names through a chain of at least one macro body
RECURSIVE ChainFrom(_, _)
ChainFrom(names, n) ==
    IF n = 0 THEN {}
    ELSE CalledBy(names) \cup ChainFrom(CalledBy(names), n - 1)

\* the macros the scenario invokes, directly or through other macros
Invoked == Calls(steps) \cup ChainFrom(Calls(steps), Cardinality(DOMAIN macros))

\* the scenario invokes a macro that invokes itself, directly or through a chain
HasCycle ==
    \E m \in Invoked \cap DOMAIN macros :
        m \in ChainFrom({m}, Cardinality(DOMAIN macros))

\* C21: compile() always ends, by a return or by an exception, and never by
\* exhausting the recursion; when the scenario invokes a macro that invokes
\* itself it ends by an exception, the cycle's ValueError when every macro
\* invoked is known, and the caller gets no list; the ValueError is raised for
\* such scenarios only.
C21_MacroCycleDetection ==
    /\ <>(cpc \in {"returned", "raised"})
    /\ [](c_exc # "RecursionError")
    /\ [](HasCycle => cpc # "returned")
    /\ []((cpc = "raised" /\ HasCycle /\ Invoked \subseteq DOMAIN macros)
             => c_exc = "ValueError")
    /\ [](c_exc = "ValueError" => HasCycle)
    /\ [](cpc = "raised" => compile_result = << >>)

\* two macros invoke each other through a set_variables block: the cycle
\* error was raised after steps had been compiled, and nothing was returned
C21_Witness ==
    /\ cpc = "raised"
    /\ c_exc = "ValueError"
    /\ Len(compiled) >= 2
    /\ compile_result = << >>
    /\ "b" \in DOMAIN macros
    /\ Len(frames) >= 4

\* C22: every compiled step is the step as written with each marker
\* replaced by the value its name has in the scope in force where the step
\* stands (the enclosing scope, then the defaults and arguments of the macro,
\* then the overrides of the set_variables block), or by nothing when the
\* name is not bound there.
C22_PlaceholderSubstitution ==
    /\ Len(compiled) = Len(expected)
    /\ \A k \in 1..Len(compiled) : compiled[k] = expected[k]

\* the innermost loop is the loop of expand over a macro body (a macro call
\* makes the stack longer, a set_variables block does not)
InMacroBody == Len(frames) > 1 /\ top.stack # frames[Len(frames) - 1].stack

\* the step as written, resolved in the scope in force where it stands
Resolved == normalise_step(replace_step(normalise_step(Head(top.raw)), top.scope))

\* C32: a step of a macro body is compiled with its markers resolved by the
\* arguments of the call first, then the defaults of the macro, then the
\* variables of the scope the macro was invoked in, that scope being the call
\* context of the invoking macro or the variables of the enclosing
\* set_variables block when there is one.
C32_MacroScopePrecedence ==
    [][ (cpc = "compile" /\ InMacroBody /\ Len(compiled') = Len(compiled) + 1)
            => compiled'[Len(compiled')] = Resolved ]_vars

\* the innermost loop is the loop over the steps of a set_variables block
InBlock == Len(frames) > 1 /\ top.stack = frames[Len(frames) - 1].stack

\* C33: a step nested in a set_variables block, wherever the block stands, is
\* compiled with its markers resolved in the enclosing scope overlaid by the
\* overrides of the block; and the variables of the enclosing loops are what
\* they were before the block, so the steps after it see no override.
C33_ScopedVariablesDoNotLeak ==
    [][ /\ (cpc = "compile" /\ InBlock /\ Len(compiled') = Len(compiled) + 1)
            => compiled'[Len(compiled')] = Resolved
        /\ \A i \in 1..Len(frames) :
               i <= Len(frames') =>
                   /\ frames'[i].variables = frames[i].variables
                   /\ frames'[i].scope = frames[i].scope ]_vars

\* C34: the list compile() returns is flat (no entry carries a list of
\* steps), holds one entry per primitive step in the order the expansion
\* meets them (entry k has the fields of the k-th primitive step), and no
\* entry has the type of a macro call or of a set_variables block.
C34_OutputFullyResolved ==
    cpc = "returned" =>
        LET out == compile_result[1]
        IN /\ Len(out) = Len(expected)
           /\ \A k \in 1..Len(out) :
                 /\ out[k].steps = << >>
                 /\ DOMAIN out[k].payload.v = DOMAIN expected[k].payload.v
                 /\ out[k].type \notin {"macro", "use_macro", "set_variables",
                                        "with_variables"}

(***************************************************************************)
(* BotScript.to_json and BotScript.from_json.  A Python value is tagged     *)
(* str, num, none, list, tuple or map (a dict); a JSON value is tagged      *)
(* string, number, null, array or object.  json.dumps writes a list and a  *)
(* tuple as an array and escapes the characters outside ASCII and the      *)
(* backslash; json.loads reads an array as a list.                         *)
(***************************************************************************)
Tuple(items) == [t |-> "tuple", v |-> items]

PyNone == [t |-> "none", v |-> << >>]

\* json.dumps of the string pieces in use (ensure_ascii), and json.loads of
\* them: [s-acute] is the letter U+015B, [bs] is one backslash
Escape == ("[s-acute]" :> "[bs]u015b") @@ ("[bs]u015b" :> "[bs][bs]u015b")

Unescape == ("[bs]u015b" :> "[s-acute]") @@ ("[bs][bs]u015b" :> "[bs]u015b")

EscapeAll(text) ==
    [i \in DOMAIN text |-> IF text[i] \in DOMAIN Escape THEN Escape[text[i]] ELSE text[i]]

UnescapeAll(text) ==
    [i \in DOMAIN text |->
        IF text[i] \in DOMAIN Unescape THEN Unescape[text[i]] ELSE text[i]]

RECURSIVE dumps(_)
dumps(value) ==
    CASE value.t = "str" -> [t |-> "string", v |-> EscapeAll(value.v)]
      [] value.t = "num" -> [t |-> "number", v |-> value.v]
      [] value.t = "none" -> [t |-> "null", v |-> << >>]
      [] value.t \in {"list", "tuple"} ->
            [t |-> "array", v |-> [i \in DOMAIN value.v |-> dumps(value.v[i])]]
      [] value.t = "map" ->
            [t |-> "object", v |-> [k \in DOMAIN value.v |-> dumps(value.v[k])]]

\* a json.loads that reads an array as a tuple
RECURSIVE loads_ArraysAsTuples(_)
loads_ArraysAsTuples(json) ==
    CASE json.t = "string" -> Str(UnescapeAll(json.v))
      [] json.t = "number" -> [t |-> "num", v |-> json.v]
      [] json.t = "null" -> PyNone
      [] json.t = "array" ->
            Tuple([i \in DOMAIN json.v |-> loads_ArraysAsTuples(json.v[i])])
      [] json.t = "object" ->
            Map([k \in DOMAIN json.v |-> loads_ArraysAsTuples(json.v[k])])

RECURSIVE loads(_)
loads(json) ==
    CASE json.t = "string" -> Str(UnescapeAll(json.v))
      [] json.t = "number" -> [t |-> "num", v |-> json.v]
      [] json.t = "null" -> PyNone
      [] json.t = "array" -> List([i \in DOMAIN json.v |-> loads(json.v[i])])
      [] json.t = "object" -> Map([k \in DOMAIN json.v |-> loads(json.v[k])])

\* list(x), tuple(x), dict(x) of a sequence or a map: the same items
AsList(value) == List(value.v)

AsTuple(value) == Tuple(value.v)

BotScript(description, commands, actions) ==
    [description |-> Str(description), commands |-> Tuple(commands),
     actions |-> Tuple(actions)]

\* to_json: json.dumps of the three fields, commands and actions as lists
to_json(self) ==
    dumps(Map(("description" :> self.description)
              @@ ("commands" :> AsList(self.commands))
              @@ ("actions" :> AsList(self.actions))))

\* from_json: json.loads, then the three fields with their defaults
from_json(payload) ==
    LET data == loads(payload).v
        commands == IF "commands" \in DOMAIN data /\ data["commands"].v # << >>
                       THEN data["commands"] ELSE Tuple(<< >>)
        actions == IF "actions" \in DOMAIN data /\ data["actions"].v # << >>
                      THEN data["actions"] ELSE Tuple(<< >>)
    IN [description |-> IF "description" \in DOMAIN data THEN data["description"]
                        ELSE Str(<< >>),
        commands |-> AsTuple(commands),
        actions |-> AsTuple(actions)]

\* the descriptions, commands and action maps of the scripts converted
Descriptions == {<< >>, <<"Opis">>, <<"Cze", "[s-acute]", "[bs]u015b">>, <<"[bs]u015b">>}

Commands == {Str(<<"/one">>), Str(<<"/", "[s-acute]">>)}

ActionMaps ==
    { Map(("type" :> Str(<<"chat">>)) @@ ("message" :> Str(<<"Cze", "[s-acute]">>))),
      Map(("type" :> Str(<<"key_combo">>))
          @@ ("keys" :> List(<<Str(<<"ctrl">>), Str(<<"s">>)>>))
          @@ ("hold" :> Num)),
      Map(("type" :> Str(<<"mouse">>))
          @@ ("meta" :> Map(("pos" :> List(<<Num, PyNone>>)) @@ ("tag" :> PyNone)))),
      Map(("type" :> Str(<<"key_combo">>))
          @@ ("keys" :> Tuple(<<Str(<<"ctrl">>), Str(<<"s">>)>>))) }

InitJson ==
    /\ runs = << >>
    /\ server_address = TRUE
    /\ has_controller = TRUE
    /\ InitOrch
    /\ InitMonitor
    /\ NoVerdict
    /\ IdleController
    /\ IdleLogRun
    /\ IdleRunner
    /\ IdleCompiler
    /\ IdleSummary
    /\ IdleRegistry
    /\ IdleWine
    /\ \E description \in Descriptions,
          commands \in UNION {[1..n -> Commands] : n \in 0..MaxItems},
          actions \in UNION {[1..n -> ActionMaps] : n \in 0..MaxItems} :
          bot_script = BotScript(description, commands, actions)
    /\ json_text = << >>
    /\ parsed = << >>
    /\ jpc = "script"

script_to_json ==
    /\ jpc = "script"
    /\ json_text' = to_json(bot_script)
    /\ jpc' = "json"
    /\ UNCHANGED <<notJson, bot_script, parsed>>

script_from_json ==
    /\ jpc = "json"
    /\ parsed' = from_json(json_text)
    /\ jpc' = "parsed"
    /\ UNCHANGED <<notJson, bot_script, json_text>>

NextJson ==
    \/ script_to_json
    \/ script_from_json

SpecJson == InitJson /\ [][NextJson]_vars

(***************************************************************************)
(* Claims about the JSON round trip                                        *)
(***************************************************************************)
\* the value is made of strings, numbers, None, lists and maps only: what
\* JSON can hold without changing its kind
RECURSIVE JsonRepresentable(_)
JsonRepresentable(value) ==
    CASE value.t \in {"str", "num", "none"} -> TRUE
      [] value.t = "list" -> \A i \in DOMAIN value.v : JsonRepresentable(value.v[i])
      [] value.t = "map" -> \A k \in DOMAIN value.v : JsonRepresentable(value.v[k])
      [] OTHER -> FALSE

\* C25: for a script whose action maps are JSON-representable,
\* from_json(to_json(s)) has the description, the commands and the actions
\* of s, in the same order.
C25_JsonRoundTrip ==
    (jpc = "parsed"
       /\ \A i \in DOMAIN bot_script.actions.v :
             JsonRepresentable(bot_script.actions.v[i]))
        => /\ parsed.description = bot_script.description
           /\ parsed.commands = bot_script.commands
           /\ parsed.actions = bot_script.actions

\* a script with a description outside ASCII, two commands and two actions
\* holding a list and a nested map came back equal
C25_Witness ==
    /\ jpc = "parsed"
    /\ parsed = bot_script
    /\ bot_script.description = Str(<<"Cze", "[s-acute]", "[bs]u015b">>)
    /\ Len(bot_script.commands.v) = 2
    /\ Len(bot_script.actions.v) = 2
    /\ bot_script.actions.v[1].v["type"] = Str(<<"key_combo">>)
    /\ "hold" \in DOMAIN bot_script.actions.v[1].v
    /\ bot_script.actions.v[2].v["type"] = Str(<<"mouse">>)
    /\ json_text.v["description"].v = <<"Cze", "[bs]u015b", "[bs][bs]u015b">>


\* ---------------------------------------------------------------------------
\* Per-scenario statistics.  run_suite returns one TestRunResult per attempt,
\* the attempts of one retry loop next to each other and numbered from 1;
\* summarise_per_script folds that stream into one ScenarioStatistics per script
\* description.
\* ---------------------------------------------------------------------------
SummaryDescriptions == {"Retry Demo", "Stable"}

\* the part of a TestRunResult the statistics read; success is the value of
\* its is_successful()
TestRunResult(description, attempt_index, success) ==
    [description |-> description, attempt_index |-> attempt_index, success |-> success]

ScenarioStatistics(total, successful, failed, retried, flaky, last) ==
    [total_runs |-> total, successful_runs |-> successful, failed_runs |-> failed,
     retries |-> retried, flaky_successes |-> flaky, last_status |-> last]

EmptyStatistics == ScenarioStatistics(0, 0, 0, 0, 0, "UNKNOWN")

One(b) == IF b THEN 1 ELSE 0

\* a retry counts as flaky whenever it is made, successful or not
record_result_RetryIsFlaky(stats, result) ==
    ScenarioStatistics(
        stats.total_runs + 1,
        stats.successful_runs + One(result.success),
        stats.failed_runs + One(~result.success),
        stats.retries + One(result.attempt_index > 1),
        stats.flaky_successes + One(result.attempt_index > 1),
        IF result.success THEN "SUCCESS" ELSE "FAILURE")

\* one result added to the statistics of its description
record_result(stats, result) ==
    ScenarioStatistics(
        stats.total_runs + 1,
        stats.successful_runs + One(result.success),
        stats.failed_runs + One(~result.success),
        stats.retries + One(result.attempt_index > 1),
        stats.flaky_successes + One(result.attempt_index > 1 /\ result.success),
        IF result.success THEN "SUCCESS" ELSE "FAILURE")

RECURSIVE summarise_from(_, _, _)
summarise_from(rs, k, acc) ==
    IF k > Len(rs) THEN acc
    ELSE LET result == rs[k]
             d == result.description
             before == IF d \in DOMAIN acc THEN acc[d] ELSE EmptyStatistics
         IN summarise_from(rs, k + 1, (d :> record_result(before, result)) @@ acc)

summarise_per_script(rs) == summarise_from(rs, 1, << >>)

InitSum ==
    /\ runs = << >>
    /\ server_address = TRUE
    /\ has_controller = TRUE
    /\ InitOrch
    /\ InitMonitor
    /\ NoVerdict
    /\ IdleController
    /\ IdleLogRun
    /\ IdleRunner
    /\ IdleCompiler
    /\ IdleJson
    /\ IdleRegistry
    /\ IdleWine
    /\ stream = << >>
    /\ summary = << >>
    /\ upc = "results"

\* the first attempt of an iteration of a context
first_attempt ==
    /\ upc = "results"
    /\ Len(stream) < MaxResults
    /\ \E d \in SummaryDescriptions, success \in BOOLEAN :
           stream' = Append(stream, TestRunResult(d, 1, success))
    /\ UNCHANGED <<summary, upc, notSum>>

\* the retry loop: the last attempt failed and the context has retries left
retry_attempt ==
    /\ upc = "results"
    /\ Len(stream) < MaxResults
    /\ stream # << >>
    /\ LET last == stream[Len(stream)]
       IN /\ ~last.success
          /\ last.attempt_index <= MaxRetries
          /\ \E success \in BOOLEAN :
                 stream' = Append(stream,
                     TestRunResult(last.description, last.attempt_index + 1, success))
    /\ UNCHANGED <<summary, upc, notSum>>

summarise ==
    /\ upc = "results"
    /\ summary' = summarise_per_script(stream)
    /\ upc' = "summary"
    /\ UNCHANGED <<stream, notSum>>

NextSum == first_attempt \/ retry_attempt \/ summarise

SpecSum == InitSum /\ [][NextSum]_vars

\* the positions of the results of one description
Group(d) == {k \in 1..Len(stream) : stream[k].description = d}

\* the attempt at k is a retry of the attempt right before it
FollowsFailedAttempt(k) ==
    /\ k > 1
    /\ stream[k - 1].description = stream[k].description
    /\ ~stream[k - 1].success
    /\ stream[k].attempt_index = stream[k - 1].attempt_index + 1

GroupMax(d) == CHOOSE k \in Group(d) : \A j \in Group(d) : j <= k

DEFAULT_MAX_LENGTH == 80

DEFAULT_FALLBACK == <<"s", "c", "e", "n", "a", "r", "i", "o">>

\* [^a-z0-9._-] : the characters in use that the pattern leaves alone
SafeChars == {"a", "b", "p", "s", "1", ".", "_", "-"}

Separators == {".", "_", "-"}

RECURSIVE lstrip(_, _)
lstrip(text, chars) ==
    IF text # << >> /\ Head(text) \in chars THEN lstrip(Tail(text), chars) ELSE text

RECURSIVE rstrip(_, _)
rstrip(text, chars) ==
    IF text # << >> /\ text[Len(text)] \in chars
    THEN rstrip(SubSeq(text, 1, Len(text) - 1), chars)
    ELSE text

strip(text, chars) == rstrip(lstrip(text, chars), chars)

\* _normalise_text: NFKD, ASCII characters kept, combining marks dropped
RECURSIVE normalise_text(_)
normalise_text(text) ==
    IF text = << >> THEN << >>
    ELSE (IF Head(text) = "[s-acute]" THEN <<"s">> ELSE <<Head(text)>>)
         \o normalise_text(Tail(text))

\* str.casefold over the characters in use
casefold(text) == [i \in DOMAIN text |-> IF text[i] = "P" THEN "p" ELSE text[i]]

\* _SAFE_CHAR_PATTERN.sub("_", text): each run of unsafe characters becomes one "_"
RECURSIVE sub_unsafe(_)
sub_unsafe(text) ==
    IF text = << >> THEN << >>
    ELSE IF Head(text) \in SafeChars THEN <<Head(text)>> \o sub_unsafe(Tail(text))
    ELSE IF Len(text) > 1 /\ text[2] \notin SafeChars THEN sub_unsafe(Tail(text))
    ELSE <<"_">> \o sub_unsafe(Tail(text))

\* re.sub(c+, c, text)
RECURSIVE collapse(_, _)
collapse(text, c) ==
    IF text = << >> THEN << >>
    ELSE IF Len(text) > 1 /\ text[1] = c /\ text[2] = c THEN collapse(Tail(text), c)
    ELSE <<Head(text)>> \o collapse(Tail(text), c)

slugify_description(text) ==
    LET stripped == strip(text, {" "})
        normalised == casefold(normalise_text(stripped))
        safe == strip(collapse(collapse(collapse(sub_unsafe(normalised), "_"), "-"), "."),
                      Separators)
        cut == IF Len(safe) > DEFAULT_MAX_LENGTH
               THEN rstrip(SubSeq(safe, 1, DEFAULT_MAX_LENGTH), Separators)
               ELSE safe
    IN IF stripped = << >> \/ normalised = << >> THEN DEFAULT_FALLBACK
       ELSE IF cut = << >> THEN DEFAULT_FALLBACK ELSE cut

\* description.replace(' ', '_')
replace_spaces(text) == [i \in DOMAIN text |-> IF text[i] = " " THEN "_" ELSE text[i]]

\* the name register_script gives the file
target_name(description) == replace_spaces(description) \o <<".json">>

\* Patrol-like descriptions: plain, with a space, with a path separator,
\* blank, with a non-ASCII letter
RegisteredDescriptions ==
    { <<"P", "a">>, <<"P", " ", "a">>, <<"a", "/", "b">>, <<" ", " ">>, <<"[s-acute]">> }

RegisteredCommands == { <<Str(<<"/start">>)>>, <<Str(<<"/stop">>)>> }

InitReg ==
    /\ runs = << >>
    /\ server_address = TRUE
    /\ has_controller = TRUE
    /\ InitOrch
    /\ InitMonitor
    /\ NoVerdict
    /\ IdleController
    /\ IdleLogRun
    /\ IdleRunner
    /\ IdleCompiler
    /\ IdleJson
    /\ IdleSummary
    /\ IdleRegistry
    /\ IdleWine

\* register_script(script): write_text raises when the parent directory of the
\* target is missing, otherwise creates or truncates the file
register_script ==
    /\ r_calls < MaxRegistrations
    /\ \E description \in RegisteredDescriptions, commands \in RegisteredCommands :
           LET given == BotScript(description, commands, << >>)
               target == target_name(description)
           IN /\ r_script' = given
              /\ r_calls' = r_calls + 1
              /\ IF \E i \in DOMAIN target : target[i] = "/"
                 THEN /\ r_exc' = "FileNotFoundError"
                      /\ UNCHANGED <<files, returned>>
                 ELSE /\ r_exc' = "none"
                      /\ files' = (target :> to_json(given))
                                      @@ [f \in DOMAIN files \ {target} |-> files[f]]
                      /\ returned' = Append(returned, target)
    /\ UNCHANGED notReg

NextReg == register_script

SpecReg == InitReg /\ [][NextReg]_vars

StartsWith(text, prefix) ==
    Len(prefix) <= Len(text) /\ SubSeq(text, 1, Len(prefix)) = prefix

\* C28: every register_script call returns a path in scripts_dir whose name
\* starts with the slug of the description ("scenario" for a blank one) and
\* that holds the script; the path differs from every path returned before
\* and every file that existed before the call is unchanged.
C28_RegisterNeverOverwrites ==
    [][ r_calls' = r_calls + 1 =>
            /\ r_exc' = "none"
            /\ Len(returned') = Len(returned) + 1
            /\ LET path == returned'[Len(returned')]
               IN /\ StartsWith(path, slugify_description(r_script'.description.v))
                  /\ \A k \in DOMAIN returned : returned[k] # path
                  /\ path \in DOMAIN files'
                  /\ files'[path] = to_json(r_script')
            /\ \A f \in DOMAIN files : f \in DOMAIN files' /\ files'[f] = files[f] ]_vars


\* ---------------------------------------------------------------------------
\* The read cursor and the mark of the log monitors
\* ---------------------------------------------------------------------------
\* a step of the wait_for loop that read the file: the phrase was not found and
\* the loop sleeps, or it was found and wait_for returns True
PollStep ==
    /\ mpc = "wait"
    /\ \/ w_polls' = w_polls + 1
       \/ mpc' = "idle" /\ ret_bool'

PollMatched == mpc' = "idle"

\* C29: a wait_for poll looks at the text between the read cursor and the end
\* of the file only (it matches exactly when the phrase is in that text) and
\* then puts the read cursor at the end of the file, matched or not; the read
\* cursor never moves back and nothing else moves it while wait_for runs, so
\* the texts the polls of successive wait_for calls look at are adjacent and
\* disjoint: each appended character is looked at by one poll.
C29_ChunkInspectedOnce ==
    [][ /\ offset' >= offset
        /\ PollStep =>
              /\ offset' = Len(content)
              /\ PollMatched <=> Contains(w_phrase, Slice(content, offset))
        /\ (mpc = "wait" \/ mpc' = "wait") /\ ~PollStep => offset' = offset ]_vars

\* the phrase ab is in the file, a first poll saw a, a second poll saw b alone
\* and did not match
C29_Witness ==
    /\ mpc = "wait"
    /\ w_phrase = <<"a", "b">>
    /\ content = <<"a", "b">>
    /\ w_polls = 2
    /\ offset = 2
    /\ mark_offset = 0

\* a step of collect_since_mark
CollectStep ==
    /\ mpc = "idle"
    /\ mpc' = "idle"
    /\ last_op' = "collect"
    /\ content' = content
    /\ exists' = exists

\* C30: collect_since_mark(False) returns the text from the mark to the end of
\* the file, collect_since_mark(True) the whole file; both then put the mark
\* (and the read cursor) at the end of the file.  Only mark() and
\* collect_since_mark move the mark, so the texts of consecutive
\* collect_since_mark(False) calls are adjacent and disjoint.
C30_CollectPartitions ==
    [][ /\ CollectStep =>
              /\ ret_text' = (IF c_full' THEN content ELSE Slice(content, mark_offset))
              /\ mark_offset' = Len(content)
              /\ offset' = Len(content)
        /\ mark_offset' # mark_offset =>
              /\ mpc = "idle"
              /\ last_op' \in {"mark", "collect"}
              /\ mark_offset' = Len(content)
              /\ mark_offset' > mark_offset ]_vars

\* a collect_since_mark(False) that returned the b appended after the mark,
\* a wait_for having read past it before
C30_Witness ==
    /\ mpc = "idle"
    /\ last_op = "collect"
    /\ ~c_full
    /\ content = <<"a", "b">>
    /\ ret_text = <<"b">>
    /\ mark_offset = 2
    /\ hist = <<"wait_for", "collect">>


\* ---------------------------------------------------------------------------
\* Iterations and waits of run_suite
\* ---------------------------------------------------------------------------
\* contexts that differ in their iterations and in their two waits
WaitContext ==
    [client_names : {<< >>, <<"ghost">>},
     expect_server_logs : {0},
     client_log_expectations : {<< >>},
     iterations : 0..MaxIterations,
     max_retries : {0},
     fail_fast : {FALSE},
     enabled : {TRUE},
     assertions : {<< >>},
     wait_before : {0, 1},
     wait_after : {0, 1},
     server_log_export : {FALSE}]

InitWait ==
    /\ runs \in UNION {[1..n -> WaitContext] : n \in 1..MaxRuns}
    /\ server_address \in BOOLEAN
    /\ has_controller = TRUE
    /\ InitOrch
    /\ InitMonitor
    /\ NoVerdict
    /\ IdleController
    /\ IdleExt
    /\ IdleLogRun
    /\ IdleRunner

SpecWait == InitWait /\ [][Next]_vars

\* the iterations run_suite made of context k, and its sleeps of one kind
IterationsOf(k) == {j \in 1..Len(results) : results[j].ctx = k}

SleepsOf(k, kind) == {j \in 1..Len(slept) : slept[j].ctx = k /\ slept[j].kind = kind}

\* the waits of context k are where the loop puts them: wait_before once, in
\* front of the first iteration; wait_after behind every iteration but the last
WaitsInPlace(k, n) ==
    /\ Cardinality(SleepsOf(k, "wait_before")) = (IF runs[k].wait_before > 0 THEN 1 ELSE 0)
    /\ \A j \in SleepsOf(k, "wait_before") :
           /\ slept[j].iteration = 0
           /\ \A r \in IterationsOf(k) : r > slept[j].results
    /\ Cardinality(SleepsOf(k, "wait_after")) = (IF runs[k].wait_after > 0 THEN n - 1 ELSE 0)
    /\ \A j \in SleepsOf(k, "wait_after") :
           /\ slept[j].iteration + 1 < n
           /\ results[slept[j].results + 1].ctx = k
           /\ results[slept[j].results + 1].iteration = slept[j].iteration
    /\ \A j1, j2 \in SleepsOf(k, "wait_after") :
           slept[j1].iteration = slept[j2].iteration => j1 = j2

\* C31 as stated: when run_suite returns, every context with iterations = n
\* was run exactly n times, with wait_before slept once in front of the first
\* iteration and wait_after slept behind every iteration but the last.
C31_IterationsAndWaits_Original ==
    pc = "done" =>
        \A k \in 1..Len(runs) :
            /\ Cardinality(IterationsOf(k)) = runs[k].iterations
            /\ WaitsInPlace(k, runs[k].iterations)

\* C31 amended: the number of iterations is max(1, n), so a context with
\* iterations = 0 is run once (and sleeps no wait_after).
C31_IterationsAndWaits ==
    pc = "done" =>
        \A k \in 1..Len(runs) :
            /\ Cardinality(IterationsOf(k)) = Max(1, runs[k].iterations)
            /\ WaitsInPlace(k, Max(1, runs[k].iterations))

\* a suite whose first context ran twice with both waits and whose second has
\* iterations = 0 and ran once
C31_Witness ==
    /\ pc = "done"
    /\ Len(runs) = 2
    /\ runs[1].iterations = 2 /\ runs[1].wait_before = 1 /\ runs[1].wait_after = 1
    /\ runs[2].iterations = 0 /\ runs[2].wait_before = 1 /\ runs[2].wait_after = 1
    /\ Len(results) = 3
    /\ Len(slept) = 3
    /\ slept[2].kind = "wait_after"
    /\ slept[3].kind = "wait_before" /\ slept[3].ctx = 2


\* ---------------------------------------------------------------------------
\* WineSampClient.execute_script: up to three runs of the client's one
\* ScriptRunner over its one transport, the command file (buffer is the
\* payloads the file holds, in order).  The window interactions of
\* _handle_event are left out.
\* ---------------------------------------------------------------------------
\* the actions of the scripts in use; the chat without a message raises, the
\* key press has two payloads
WineActions ==
    { Action("command", "command" :> "/one"),
      Action("chat", "message" :> "hi"),
      Action("chat", NoPayload),
      Action("keypress", "key" :> "f"),
      Action("keypress", NoPayload) }

SetupChoices ==
    { << >>, <<[Action("wait", "seconds" :> "1") EXCEPT !.delay = "1.0"]>>,
      <<Action("chat", NoPayload)>> }

TeardownChoices ==
    { << >>, <<Action("command", "command" :> "/two")>>, <<Action("chat", NoPayload)>> }

\* self._runner.run(sc): a new events list, the first action next
runner_start(sc) ==
    /\ script' = sc
    /\ ppc' = "translate"
    /\ ai' = 1
    /\ payloads' = << >>
    /\ pi' = 0
    /\ events' = << >>
    /\ p_exc' = "none"

\* execute_script(script) is called: the setup run when there are setup
\* actions, else the run of the script
InitWine ==
    /\ runs = << >>
    /\ server_address = TRUE
    /\ has_controller = TRUE
    /\ InitOrch
    /\ InitMonitor
    /\ NoVerdict
    /\ IdleController
    /\ IdleLogRun
    /\ IdleCompiler
    /\ IdleJson
    /\ IdleSummary
    /\ IdleRegistry
    /\ setup_actions \in SetupChoices
    /\ teardown_actions \in TeardownChoices
    /\ e_script \in UNION {[1..n -> WineActions] : n \in 0..MaxActions}
    /\ phase = (IF setup_actions # << >> THEN "setup" ELSE "script")
    /\ playback = << >>
    /\ script = (IF setup_actions # << >> THEN setup_actions ELSE e_script)
    /\ ppc = "translate"
    /\ ai = 1
    /\ payloads = << >>
    /\ pi = 0
    /\ buffer = << >>
    /\ flushed = 0
    /\ events = << >>
    /\ p_exc = "none"

\* the setup run returned: log = self._runner.run(script) begins
execute_script_run ==
    /\ phase = "setup"
    /\ ppc = "returned"
    /\ phase' = "script"
    /\ runner_start(e_script)
    /\ UNCHANGED <<notWine, setup_actions, teardown_actions, e_script, playback, buffer,
                   flushed>>

\* a client that hands out the log of the last run it made
execute_script_teardown_LastLog ==
    /\ phase = "teardown"
    /\ ppc = "returned"
    /\ phase' = "returned"
    /\ playback' = <<events>>
    /\ UNCHANGED <<notWine, playVars, setup_actions, teardown_actions, e_script>>

\* the run of the script returned its log: the teardown run when there are
\* teardown actions, else return log
execute_script_log ==
    /\ phase = "script"
    /\ ppc = "returned"
    /\ playback' = <<events>>
    /\ IF teardown_actions # << >>
          THEN /\ phase' = "teardown"
               /\ runner_start(teardown_actions)
          ELSE /\ phase' = "returned"
               /\ UNCHANGED <<script, ppc, ai, payloads, pi, events, p_exc>>
    /\ UNCHANGED <<notWine, setup_actions, teardown_actions, e_script, buffer, flushed>>

\* the teardown run returned: return log
execute_script_teardown ==
    /\ phase = "teardown"
    /\ ppc = "returned"
    /\ phase' = "returned"
    /\ UNCHANGED <<notWine, playVars, setup_actions, teardown_actions, e_script, playback>>

\* a run raised: nothing catches it, execute_script is left without a log
execute_script_raises ==
    /\ phase \in {"setup", "script", "teardown"}
    /\ ppc = "raised"
    /\ phase' = "raised"
    /\ UNCHANGED <<notWine, playVars, setup_actions, teardown_actions, e_script, playback>>

NextWine ==
    \/ runner_translate
    \/ runner_send
    \/ runner_flush
    \/ runner_event
    \/ runner_return
    \/ execute_script_run
    \/ execute_script_log
    \/ execute_script_teardown
    \/ execute_script_raises

SpecWine == InitWine /\ [][NextWine]_vars

\* C35: when execute_script returns, the command file holds the payloads of
\* the setup actions, then those of the script, then those of the teardown
\* actions, and the log returned has one event per action of the script, in
\* order, with the payloads of that action: no event of the setup or of the
\* teardown; while it runs, the runs come in the order setup, script, teardown.
C35_SetupScriptTeardown ==
    /\ phase = "returned" =>
          /\ buffer = script_payloads(setup_actions) \o script_payloads(e_script)
                          \o script_payloads(teardown_actions)
          /\ playback # << >>
          /\ Len(playback[1]) = Len(e_script)
          /\ \A k \in 1..Len(e_script) :
                /\ playback[1][k].action = e_script[k]
                /\ playback[1][k].command_payloads = translate(e_script[k]).payloads
    /\ phase = "setup" => buffer = SubSeq(script_payloads(setup_actions), 1, Len(buffer))
    /\ phase = "script" =>
          /\ Len(buffer) >= Len(script_payloads(setup_actions))
          /\ buffer = SubSeq(script_payloads(setup_actions) \o script_payloads(e_script),
                             1, Len(buffer))
    /\ phase = "teardown" =>
          /\ Len(buffer) >= Len(script_payloads(setup_actions) \o script_payloads(e_script))
          /\ playback # << >>

\* setup, a script of a command and a key press, teardown: four payloads of
\* the script between the two others, two events in the log
C35_Witness ==
    /\ phase = "returned"
    /\ setup_actions # << >>
    /\ teardown_actions # << >>
    /\ Len(e_script) = 2
    /\ Len(buffer) = 5
    /\ Len(playback[1]) = 2
    /\ buffer[1] = <<"WAIT", "1.0">>
    /\ buffer[5] = <<"/two">>

(***************************************************************************)
(* Several expectations on one monitor (SpecLog)                           *)
(***************************************************************************)
\* the step that appends the result of the expectation being evaluated
ExpectationResultStep == lpc = "waiting" /\ Len(l_matched') = Len(l_matched) + 1

\* expectations j < k that both matched were matched by two pieces of the text
\* appended since run() was called, the piece of j before the piece of k
MatchedByDisjointPieces ==
    \A j, k \in 1..Len(l_matched) :
       (j < k /\ l_matched[j] /\ l_matched[k]) =>
          \E p \in l_before..Len(content) :
             /\ Contains(l_expect[j], SubSeq(content, l_before + 1, p))
             /\ Contains(l_expect[k], Slice(content, p))

\* C36 as stated: an expectation whose phrase is in the text appended after
\* the run's mark when its wait_for polls the log is reported matched,
\* whatever its position in the list and whatever earlier expectations have
\* read.
C36_OrderIndependent_Original ==
    [][ (lpc = "waiting" /\ PollStep /\ Contains(l_expect[l_index], Slice(content, l_before)))
           => (ExpectationResultStep /\ l_matched'[Len(l_matched')]) ]_vars

\* C36 amended: the result of an expectation is the result of the last step of
\* its wait_for: matched exactly when that step is a poll and the phrase is in
\* the text appended after the previous read of the monitor (by an earlier
\* poll of this or of an earlier expectation, or by the run's mark); the
\* expectations that matched were matched by disjoint pieces of the log, in
\* the order of the list.
C36_OrderIndependent ==
    /\ [][ ExpectationResultStep =>
              /\ offset >= l_before
              /\ l_matched'[Len(l_matched')]
                    = (PollStep /\ Contains(l_expect[l_index], Slice(content, offset))) ]_vars
    /\ []MatchedByDisjointPieces

\* two expectations for the same phrase, one a appended since run() was
\* called: the first is matched, the second is not
C36_Witness ==
    /\ lpc = "return"
    /\ l_expect = <<<<"a">>, <<"a">>>>
    /\ Slice(content, l_before) = <<"a">>
    /\ l_matched = <<TRUE, FALSE>>

(***************************************************************************)
(* wait_for against a concurrent writer (SpecMon)                          *)
(***************************************************************************)
\* the phrase stands in the text at positions i + 1 .. i + Len(phrase)
OccursAt(phrase, text, i) ==
    /\ i + Len(phrase) <= Len(text)
    /\ SubSeq(text, i + 1, i + Len(phrase)) = phrase

\* the step in which wait_for returns
WaitForReturns == mpc = "wait" /\ mpc' = "idle"

\* C37 as stated: a poll at which the complete phrase is in the text appended
\* after the last mark() makes wait_for return true, for every interleaving of
\* appends and polls.
C37_FoundUnderEveryInterleaving_Original ==
    [][ (PollStep /\ Contains(w_phrase, Slice(content, mark_offset)))
           => (WaitForReturns /\ ret_bool') ]_vars

\* C37 amended: for every interleaving of appends and polls, wait_for returns
\* true at a poll exactly when the complete phrase stands in the text appended
\* since the previous read, that is at a position at or after the read cursor;
\* an occurrence that begins before the read cursor (the phrase arrived in
\* two writes with a poll between them, or an earlier wait_for read it) is
\* not found, and wait_for returns false at its deadline.
C37_FoundUnderEveryInterleaving ==
    [][ /\ PollStep =>
              ((WaitForReturns /\ ret_bool')
                  <=> \E i \in offset..Len(content) : OccursAt(w_phrase, content, i))
        /\ (WaitForReturns /\ ~PollStep) => ~ret_bool' ]_vars

\* the phrase ab arrived as a, poll, b, poll: it is in the text after the
\* mark at the second poll, and wait_for has returned false
C37_Witness ==
    /\ mpc = "idle"
    /\ last_op = "wait_for"
    /\ m_exc = "none"
    /\ ~ret_bool
    /\ w_phrase = <<"a", "b">>
    /\ w_polls = MaxPolls
    /\ content = <<"a", "b">>
    /\ offset = 2
    /\ mark_offset = 0

(***************************************************************************)
(* Readiness and the log of an earlier server run (SpecSrv)                *)
(***************************************************************************)
\* the text written to server_log.txt since the last start() marked the log
WrittenSinceStart == Slice(content, mark_offset)

\* C38: wait_until_ready returns true only if the startup phrase was written
\* to the server log after start() spawned the process; a startup phrase an
\* earlier server run left in the log is not taken as readiness.
C38_ReadinessOfCurrentProcess ==
    [][ (spc = "ready" /\ ready' = "true")
           => Contains(startup_phrase, WrittenSinceStart) ]_vars

(***************************************************************************)
(* The clients inside the server's lifetime (SpecRun)                      *)
(***************************************************************************)
\* run() starts and stops the server itself: no server address was given
OwnsServer == ~server_address

\* a connect() that returned
ConnectStep == connects' # connects

\* run() marks the server log monitor at the head of the with block
ReadyMarkStep == server_marked' = "ready" /\ server_marked # "ready"

\* stop() forgets the process it held
StopStep == process # "none" /\ process' = "none"

\* run() has evaluated the expectations and exports of the current run
Evaluated ==
    /\ last_result.ctx = ctx
    /\ last_result.iteration = iteration
    /\ last_result.client_results = client_results
    /\ Len(last_result.log_expectations) = runs[ctx].expect_server_logs
    /\ Len(last_result.client_log_expectations) = Len(runs[ctx].client_log_expectations)

\* C39: when run() owns the server, every connect follows the report of
\* readiness and the mark run() puts on the server log monitor then; that mark
\* is made once per run, with the process held and before the first connect;
\* stop() is called with every client disconnected and, when no exception is
\* in flight, with the expectations and exports evaluated; no client is
\* connected while the controller holds no process.
C39_ClientsInsideServerLifetime ==
    /\ []( OwnsServer =>
             /\ process = "none" => connected = {}
             /\ pc \in {"connect", "execute", "disconnect", "evaluate"}
                   => (process # "none" /\ server_marked = "ready") )
    /\ [][ OwnsServer =>
             /\ ConnectStep => (server_marked = "ready" /\ process # "none")
             /\ ReadyMarkStep =>
                   /\ pc = "ready"
                   /\ server_marked = "start"
                   /\ process = "running"
                   /\ connected = {}
                   /\ \A c \in Range(selected) : outcome[c] = "none"
             /\ StopStep =>
                   /\ connected = {}
                   /\ \A c \in client_lookup : connects[c] = disconnects[c]
                   /\ exc = "none" => Evaluated ]_vars

\* a run() that owned the server returned: two clients were connected and
\* disconnected between the ready mark and the stop
C39_Witness ==
    /\ OwnsServer
    /\ pc = "return"
    /\ server_marked = "ready"
    /\ started = 1
    /\ stopped = 1
    /\ process = "none"
    /\ Len(last_result.client_results) = 2
    /\ \A c \in client_lookup : connects[c] = 1 /\ disconnects[c] = 1

(***************************************************************************)
(* The order of the two offsets (SpecMon)                                  *)
(***************************************************************************)
\* a step of mark() or of collect_since_mark()
MarkOrCollectStep ==
    /\ mpc = "idle"
    /\ mpc' = "idle"
    /\ last_op' \in {"mark", "collect"}
    /\ content' = content
    /\ exists' = exists

\* C40: in every state reached by mark(), wait_for() and collect_since_mark()
\* on a file that only grows, mark offset <= read cursor <= length of the
\* file; no step of wait_for changes the mark offset; mark() and
\* collect_since_mark() leave the two offsets equal.
C40_CursorOrdering ==
    /\ [](mark_offset <= offset /\ offset <= Len(content))
    /\ [][ /\ (mpc = "wait" \/ mpc' = "wait") => mark_offset' = mark_offset
           /\ MarkOrCollectStep =>
                 (offset' = mark_offset' /\ offset' = Len(content)) ]_vars

\* a wait_for has read b beyond the mark and c was appended since: the three
\* values differ
C40_Witness ==
    /\ mpc = "idle"
    /\ last_op = "wait_for"
    /\ mark_offset = 1
    /\ offset = 2
    /\ Len(content) = 3

====
